---- MODULE Spec2Model ----
(***************************************************************************)
(* A model of exchangelib (src/src/py-exchange/exchangelib): the Protocol  *)
(* cache and session pool (protocol.py), post_ratelimited and the retry    *)
(* policies (util.py, protocol.py), the service dispatch and paging layer  *)
(* (services/common.py) and the QuerySet (queryset.py).                    *)
(*                                                                         *)
(* Each part of the library has its own variables and its own              *)
(* specification (SpecCache, SpecPool, ...); a specification leaves the    *)
(* variables of the other parts at their initial values.                   *)
(***************************************************************************)
EXTENDS Integers, Sequences, FiniteSets, TLC

VARIABLES
    \* ---- CachingProtocol (protocol.py 385-465)
    protocol_cache,        \* _protocol_cache: key -> entry
    protocol_cache_lock,   \* _protocol_cache_lock: the thread holding it, or NoThread
    cpc,                   \* position of each thread inside CachingProtocol.__call__
    ckey,                  \* the _protocol_cache_key of the call a thread is in
    cret,                  \* what the thread's last call returned
    created,               \* history: instances constructed per key since the last clear_cache
    nextInst,              \* identity of the next Protocol instance
    epoch,                 \* history: number of clear_cache calls so far
    \* ---- BaseProtocol session pool (protocol.py 78-266)
    max_connections,       \* config.max_connections; 0 stands for None (unset)
    session_pool_maxsize,  \* _session_pool_maxsize
    session_pool_size,     \* _session_pool_size
    session_pool,          \* _session_pool: the number of sessions in the LifoQueue
    session_pool_lock,     \* _session_pool_lock: the thread holding it, or NoThread
    ppc,                   \* position of each thread inside the pool methods
    pop,                   \* the pool method each thread was called with
    held,                  \* sessions each thread has checked out and not released
    pexc,                  \* the exception the thread's last pool call raised
    \* ---- post_ratelimited and the retry policy (util.py 739-964, protocol.py 646-806)
    policy,                \* protocol.retry_policy: "FailFast" or "FaultTolerance"
    max_wait,              \* FaultTolerance.max_wait, in seconds
    back_off_until,        \* retry_policy._back_off_until, a time; NoTime stands for None
    allow_redirects,       \* the allow_redirects argument
    now,                   \* the clock, in seconds
    rpc,                   \* position inside post_ratelimited
    session,               \* the session post_ratelimited holds
    sessions_closed,       \* the sessions that were closed
    sessions_pooled,       \* the sessions put into the protocol's pool
    nextSess,              \* identity of the next session create_session makes
    wait,                  \* the local wait
    retry,                 \* the local retry
    redirects,             \* the local redirects
    t_start,               \* the local t_start
    r,                     \* the local r, the response
    raised,                \* the exception post_ratelimited raised
    refreshes,             \* number of expired tokens so far
    post_session,          \* history: the session of the last session.post()
    total_wait,            \* history: the wait last handed to may_retry_on_error
    outcome,               \* history: what the loop did with the last response
    delays,                \* history: the seconds handed to back_off, in order
    delay_headers,         \* history: the Retry-After header of the response of each retry
    \* ---- EWSService._get_response_xml (services/common.py 321-413)
    svc,                   \* the class of the service
    version_hint,          \* the api_version of the service's _version_hint
    v_pool_size,           \* protocol._session_pool_size as the service sees it
    vpc,                   \* position inside _get_response_xml
    api_versions,          \* the tuple the for loop iterates
    vidx,                  \* index of the loop's next element
    vresult,               \* what _get_response_xml did: returned, or the exception raised
    vraised_by,            \* the call the exception came from
    hint0,                 \* history: the version hint when the request started
    tried,                 \* history: the api versions sent, in order
    answers,               \* history: the server's answer to each of them
    \* ---- EWSService._get_elements_in_response (services/common.py 499-636)
    msvc,                  \* the class of the service
    mpc,                   \* position inside _get_elements_in_response
    mcount,                \* number of response messages taken from the response
    msg,                   \* the response message taken last
    mresult,               \* what _get_element_container did with it
    mexc,                  \* the exception it returned or raised
    results,               \* the result stream: what was yielded, in order
    \* ---- EWSPagingService._paged_call (services/common.py 712-854)
    max_items,             \* the max_items argument; 0 stands for None
    page_size,             \* the service's page_size
    paging_infos,          \* paging_infos: item_count and next_offset of each folder still paged
    common_next_offset,    \* the local common_next_offset; 0 stands for None
    total_item_count,      \* the local total_item_count
    pgpc,                  \* position inside _paged_call
    rounds,                \* history: number of page requests sent
    yielded,               \* history: number of elements the generator yielded
    yielded_exceptions,    \* history: number of exceptions the generator yielded
    \* ---- QuerySet (queryset.py 47-503) over a FolderCollection (folders/collections.py 25-49)
    request_type,          \* QuerySet.request_type
    q,                     \* QuerySet.q: no restriction, some restriction, or Q.NEVER
    only_fields,           \* number of QuerySet.only_fields; NoFields stands for None
    order_fields,          \* number of QuerySet.order_fields; NoFields stands for None
    return_format,         \* QuerySet.return_format
    qdepth,                \* QuerySet._depth
    folders_kind,          \* what FolderCollection._folders is: a list, or a generator over the hierarchy
    folders_found,         \* whether the collection holds a folder once resolved
    folders_resolved,      \* whether FolderCollection.folders has been computed
    subfolders_cached,     \* whether the root's _subfolders is not None
    item_requests,         \* FindItem and FindPeople requests sent so far
    hierarchy_loads,       \* loads of the folder hierarchy so far, each a GetFolder and a FindFolder request
    qop,                   \* the method called last
    qargs,                 \* the number of field names it was called with
    qexc,                  \* the exception it raised
    qsteps,                \* history: number of chaining calls so far
    evals,                 \* history: number of evaluations so far
    \* ---- QuerySet objects and the FieldOrder tuples they refer to (queryset.py 64-106, 400-503)
    qsets,                 \* the QuerySet objects created so far, by identity
    field_orders,          \* the order_fields tuples created so far, by identity: the reverse flag of each FieldOrder
    cself,                 \* the QuerySet the last chaining method was called on
    cop,                   \* the chaining method called last
    cexc,                  \* the exception it raised
    \* ---- QuerySet slicing over a paged FindItem call on one folder (queryset.py 282-322, services/common.py 712-846)
    view_size,             \* the number of items the query matches on the server
    qs_page_size,          \* QuerySet.page_size; 0 stands for None
    sl_start,              \* the slice's start
    sl_stop,               \* the slice's stop
    listed,                \* list(qs): the items by their position on the server
    sliced,                \* list(qs[start:stop])
    sl_done,               \* which of the two have been evaluated
    \* ---- BaseFolder.sync_items and sync_hierarchy (folders/base.py 657-701, folders/collections.py 472-539, services/sync_folder_hierarchy.py 28-39)
    item_sync_state,       \* folder.item_sync_state; 0 stands for None
    folder_sync_state,     \* folder.folder_sync_state; 0 stands for None
    sync_kind,             \* which generator is running: items or hierarchy
    sync_state,            \* the local sync_state of FolderCollection.sync_items or sync_hierarchy
    svc_sync_state,        \* svc.sync_state
    includes_last_item_in_range,\* svc.includes_last_item_in_range
    sync_pc,               \* where the generator is
    last_response_state,   \* history: the SyncState of the last response of this run
    sync_calls,            \* history: service calls of this run
    sync_runs,             \* history: generators started so far
    \* ---- EWSService._get_elements and _handle_backoff (services/common.py 258-287, 382-396)
    retry_policy,          \* protocol.retry_policy: FailFast or FaultTolerance
    e_pool_size,           \* protocol.session_pool_size
    e_pc,                  \* where _get_elements is: in its loop, or done
    e_sent,                \* number of times the payload was sent
    e_answers,             \* history: what came back each time
    told_back_off,         \* the seconds passed to retry_policy.back_off, in turn
    policy_back_off,       \* the seconds the policy backs off for, counted from the call of back_off; NoTime when _back_off_until is None
    e_result,              \* how _get_elements ended: returned, or the exception raised
    \* ---- EWSService._get_elements with _response_generator and _get_elements_in_response (services/common.py 222-231, 258-287, 630-636)
    rt_svc,                \* the service class
    rt_policy,             \* protocol.retry_policy: FailFast or FaultTolerance
    rt_pool_size,          \* protocol.session_pool_size
    rt_pc,                 \* where _get_elements is: about to send, reading the response, or done
    rt_sent,               \* number of times the payload was sent
    rt_response,           \* the response messages of the request sent last
    rt_pos,                \* index of the next message the generator takes
    delivered,             \* history: what the caller of _get_elements received, in order
    rt_result,             \* how _get_elements ended: returned, or the exception raised
    \* ---- Fields, the collection type of the FIELDS class attribute (properties.py 58-113, 391-415)
    fields_list,           \* the list part of the collection: what super() holds, in order
    fields_dict,           \* self._dict: for each name the field stored under it, <<>> when the key is absent
    fields_op,             \* history: the method called last
    fields_exc             \* history: the exception the last call raised

cacheVars == <<protocol_cache, protocol_cache_lock, cpc, ckey, cret, created, nextInst, epoch>>
poolVars == <<max_connections, session_pool_maxsize, session_pool_size, session_pool,
              session_pool_lock, ppc, pop, held, pexc>>

postVars == <<policy, max_wait, back_off_until, allow_redirects, now, rpc, session,
              sessions_closed, sessions_pooled, nextSess, wait, retry, redirects, t_start,
              r, raised, refreshes, post_session, total_wait, outcome, delays, delay_headers>>

verVars == <<svc, version_hint, v_pool_size, vpc, api_versions, vidx, vresult,
              vraised_by, hint0, tried, answers>>

msgVars == <<msvc, mpc, mcount, msg, mresult, mexc, results>>

pageVars == <<max_items, page_size, paging_infos, common_next_offset,
               total_item_count, pgpc, rounds, yielded,
               yielded_exceptions>>

queryVars == <<request_type, q, only_fields, order_fields, return_format, qdepth,
             folders_kind, folders_found, folders_resolved,
             subfolders_cached, item_requests, hierarchy_loads,
             qop, qargs, qexc, qsteps, evals>>

copyVars == <<qsets, field_orders, cself, cop, cexc>>

sliceVars == <<view_size, qs_page_size, sl_start, sl_stop, listed, sliced,
                sl_done>>

syncVars == <<item_sync_state, folder_sync_state, sync_kind, sync_state,
               svc_sync_state, includes_last_item_in_range,
               sync_pc, last_response_state, sync_calls,
               sync_runs>>

elemVars == <<retry_policy, e_pool_size, e_pc, e_sent, e_answers,
               told_back_off, policy_back_off, e_result>>

retryVars == <<rt_svc, rt_policy, rt_pool_size, rt_pc, rt_sent, rt_response,
                rt_pos, delivered, rt_result>>

fieldsVars == <<fields_list, fields_dict, fields_op, fields_exc>>

vars == <<cacheVars, poolVars, postVars, verVars, msgVars, pageVars, queryVars, copyVars, sliceVars, syncVars, elemVars, retryVars, fieldsVars>>
NotCache == <<poolVars, postVars, verVars, msgVars, pageVars, queryVars, copyVars, sliceVars, syncVars, elemVars, retryVars, fieldsVars>>
NotPool == <<cacheVars, postVars, verVars, msgVars, pageVars, queryVars, copyVars, sliceVars, syncVars, elemVars, retryVars, fieldsVars>>
NotPost == <<cacheVars, poolVars, verVars, msgVars, pageVars, queryVars, copyVars, sliceVars, syncVars, elemVars, retryVars, fieldsVars>>
NotVer == <<cacheVars, poolVars, postVars, msgVars, pageVars, queryVars, copyVars, sliceVars, syncVars, elemVars, retryVars, fieldsVars>>
NotMsg == <<cacheVars, poolVars, postVars, verVars, pageVars, queryVars, copyVars, sliceVars, syncVars, elemVars, retryVars, fieldsVars>>
NotPage == <<cacheVars, poolVars, postVars, verVars, msgVars, queryVars, copyVars, sliceVars, syncVars, elemVars, retryVars, fieldsVars>>
NotQuery == <<cacheVars, poolVars, postVars, verVars, msgVars, pageVars, copyVars, sliceVars, syncVars, elemVars, retryVars, fieldsVars>>
NotCopy == <<cacheVars, poolVars, postVars, verVars, msgVars, pageVars, queryVars, sliceVars, syncVars, elemVars, retryVars, fieldsVars>>
NotSlice == <<cacheVars, poolVars, postVars, verVars, msgVars, pageVars, queryVars, copyVars, syncVars, elemVars, retryVars, fieldsVars>>
NotSync == <<cacheVars, poolVars, postVars, verVars, msgVars, pageVars, queryVars, copyVars, sliceVars, elemVars, retryVars, fieldsVars>>
NotElem == <<cacheVars, poolVars, postVars, verVars, msgVars, pageVars, queryVars, copyVars, sliceVars, syncVars, retryVars, fieldsVars>>
NotRetry == <<cacheVars, poolVars, postVars, verVars, msgVars, pageVars, queryVars, copyVars, sliceVars, syncVars, elemVars, fieldsVars>>
NotFields == <<cacheVars, poolVars, postVars, verVars, msgVars, pageVars, queryVars, copyVars, sliceVars, syncVars, elemVars, retryVars>>

----------------------------------------------------------------------------
(* Bounds of the model *)

\* number of Protocol instances the model constructs in one run
MaxInst == 3
\* number of clear_cache calls in one run
MaxClears == 1

\* largest config.max_connections the model configures
MaxConn == 3

\* largest FaultTolerance.max_wait the model configures, in seconds
MaxWait == 30
\* number of times the OAuth token expires during one post_ratelimited call
MaxRefresh == 1
\* longest time one session.post() takes, in seconds
MaxPostTime == 1

\* number of API versions the package knows
MaxVersions == 3

\* number of response messages in one response
MaxMsgs == 2

\* largest max_items of a paged call
MaxItems == 3
\* largest page size of a paging service
MaxPageSize == 2
\* number of folders paged in one call
MaxFolders == 2
\* largest next offset a page reports
MaxOffset == 2
\* number of page requests of one paged call
MaxRounds == 3

\* number of QuerySet objects
MaxSets == 3
\* number of items a query matches on the server
MaxView == 3
\* number of times _get_elements sends its payload
MaxSends == 3
\* largest back off the server asks for, in seconds
MaxBackOff == 2
\* fields in one Fields collection, and in the argument of +=
MaxFields == 3
MaxOther == 2
\* number of different sync states the server hands out
MaxSyncStates == 3
\* number of service calls of one sync run
MaxSyncCalls == 3
\* number of sync runs on one folder
MaxSyncRuns == 2
\* largest QuerySet.page_size set by the caller
MaxQsPageSize == 2
\* largest start and stop of a slice
MaxStop == 3
\* number of chaining calls on one query set
MaxChain == 3
\* number of evaluations of one query set
MaxEvals == 2
\* largest number of field names passed to one chaining call
MaxArgs == 2

Threads == {"t1", "t2", "t3"}
NoFields == -1
NoThread == "none"
NoTime == -1

----------------------------------------------------------------------------
(* The values the variables of a part keep while another part runs *)

CacheIdle ==
    /\ protocol_cache = <<>>
    /\ protocol_cache_lock = NoThread
    /\ cpc = <<>>
    /\ ckey = <<>>
    /\ cret = <<>>
    /\ created = <<>>
    /\ nextInst = 1
    /\ epoch = 0

PoolIdle ==
    /\ max_connections = 0
    /\ session_pool_maxsize = 1
    /\ session_pool_size = 0
    /\ session_pool = 0
    /\ session_pool_lock = NoThread
    /\ ppc = <<>>
    /\ pop = <<>>
    /\ held = <<>>
    /\ pexc = <<>>

PostIdle ==
    /\ policy = "FailFast"
    /\ max_wait = 0
    /\ back_off_until = NoTime
    /\ allow_redirects = FALSE
    /\ now = 0
    /\ rpc = "idle"
    /\ session = 0
    /\ sessions_closed = {}
    /\ sessions_pooled = {}
    /\ nextSess = 1
    /\ wait = 0
    /\ retry = 0
    /\ redirects = 0
    /\ t_start = 0
    /\ r = <<>>
    /\ raised = "none"
    /\ refreshes = 0
    /\ post_session = 0
    /\ total_wait = 0
    /\ outcome = "none"
    /\ delays = <<>>
    /\ delay_headers = <<>>

VerIdle ==
    /\ svc = "EWSService"
    /\ version_hint = 1
    /\ v_pool_size = 1
    /\ vpc = "idle"
    /\ api_versions = <<>>
    /\ vidx = 1
    /\ vresult = "none"
    /\ vraised_by = "none"
    /\ hint0 = 1
    /\ tried = <<>>
    /\ answers = <<>>

MsgIdle ==
    /\ msvc = "EWSService"
    /\ mpc = "idle"
    /\ mcount = 0
    /\ msg = <<>>
    /\ mresult = "none"
    /\ mexc = "none"
    /\ results = <<>>

PageIdle ==
    /\ max_items = 0
    /\ page_size = 1
    /\ paging_infos = <<>>
    /\ common_next_offset = 0
    /\ total_item_count = 0
    /\ pgpc = "idle"
    /\ rounds = 0
    /\ yielded = 0
    /\ yielded_exceptions = 0

QueryIdle ==
    /\ request_type = "item"
    /\ q = "all"
    /\ only_fields = NoFields
    /\ order_fields = NoFields
    /\ return_format = "none"
    /\ qdepth = "None"
    /\ folders_kind = "list"
    /\ folders_found = FALSE
    /\ folders_resolved = FALSE
    /\ subfolders_cached = FALSE
    /\ item_requests = 0
    /\ hierarchy_loads = 0
    /\ qop = "none"
    /\ qargs = 0
    /\ qexc = "none"
    /\ qsteps = 0
    /\ evals = 0

CopyIdle ==
    /\ qsets = <<>>
    /\ field_orders = <<>>
    /\ cself = 0
    /\ cop = "none"
    /\ cexc = "none"

SliceIdle ==
    /\ view_size = 0
    /\ qs_page_size = 0
    /\ sl_start = 0
    /\ sl_stop = 0
    /\ listed = <<>>
    /\ sliced = <<>>
    /\ sl_done = {}

SyncIdle ==
    /\ item_sync_state = 0
    /\ folder_sync_state = 0
    /\ sync_kind = "none"
    /\ sync_state = 0
    /\ svc_sync_state = 0
    /\ includes_last_item_in_range = FALSE
    /\ sync_pc = "idle"
    /\ last_response_state = 0
    /\ sync_calls = 0
    /\ sync_runs = 0

ElemIdle ==
    /\ retry_policy = "FailFast"
    /\ e_pool_size = 1
    /\ e_pc = "idle"
    /\ e_sent = 0
    /\ e_answers = <<>>
    /\ told_back_off = <<>>
    /\ policy_back_off = NoTime
    /\ e_result = "none"

RetryIdle ==
    /\ rt_svc = "EWSService"
    /\ rt_policy = "FailFast"
    /\ rt_pool_size = 1
    /\ rt_pc = "idle"
    /\ rt_sent = 0
    /\ rt_response = <<>>
    /\ rt_pos = 1
    /\ delivered = <<>>
    /\ rt_result = "none"

FieldsIdle ==
    /\ fields_list = <<>>
    /\ fields_dict = <<>>
    /\ fields_op = "none"
    /\ fields_exc = "none"

----------------------------------------------------------------------------
(* CachingProtocol *)

\* config.service_endpoint; "" is an endpoint that is not set
Endpoints == {"", "e1"}
\* config.credentials
Credentials == {"c1", "c2"}
Configs == [service_endpoint : Endpoints, credentials : Credentials]

\* _cache_key(config): the pair (service_endpoint, credentials)
CacheKey(config) == <<config.service_endpoint, config.credentials>>

Keys == {CacheKey(c) : c \in {c \in Configs : c.service_endpoint # ""}}
NoKey == <<"", "">>

NoEntry == [kind |-> "none", id |-> 0]
ExcEntry == [kind |-> "exc", id |-> 0]
ProtocolEntry(i) == [kind |-> "protocol", id |-> i]
NoRet == [kind |-> "none", id |-> 0, key |-> NoKey, epoch |-> 0]

\* the lookup a thread makes once it holds _protocol_cache_lock, dropped
LockedLookupSkipped(k) == NoEntry
\* cls._protocol_cache[_protocol_cache_key] inside the lock (the second check)
LockedLookup(k) == protocol_cache[k]

InitCache ==
    /\ protocol_cache = [k \in Keys |-> NoEntry]
    /\ protocol_cache_lock = NoThread
    /\ cpc = [t \in Threads |-> "idle"]
    /\ ckey = [t \in Threads |-> NoKey]
    /\ cret = [t \in Threads |-> NoRet]
    /\ created = [k \in Keys |-> 0]
    /\ nextInst = 1
    /\ epoch = 0

\* Protocol(config=config): the checks before the cache is consulted
CallProtocol(t, config) ==
    /\ cpc[t] \in {"idle", "returned", "raised"}
    /\ IF config.service_endpoint = ""
       THEN \* AttributeError("'config.service_endpoint' must be set")
            /\ cpc' = [cpc EXCEPT ![t] = "raised"]
            /\ ckey' = [ckey EXCEPT ![t] = NoKey]
            /\ cret' = [cret EXCEPT ![t] = [NoRet EXCEPT !.kind = "AttributeError"]]
       ELSE /\ cpc' = [cpc EXCEPT ![t] = "lookup"]
            /\ ckey' = [ckey EXCEPT ![t] = CacheKey(config)]
            /\ cret' = [cret EXCEPT ![t] = NoRet]
    /\ UNCHANGED <<protocol_cache, protocol_cache_lock, created, nextInst, epoch>>
    /\ UNCHANGED NotCache

\* what a thread does with a cache entry it found
Found(t, e) ==
    IF e.kind = "exc"
    THEN /\ cpc' = [cpc EXCEPT ![t] = "raised"]
         /\ cret' = [cret EXCEPT ![t] =
                       [kind |-> "TransportError", id |-> 0, key |-> ckey[t], epoch |-> epoch]]
    ELSE /\ cpc' = [cpc EXCEPT ![t] = "returned"]
         /\ cret' = [cret EXCEPT ![t] =
                       [kind |-> "protocol", id |-> e.id, key |-> ckey[t], epoch |-> epoch]]

\* the first, unlocked lookup
Lookup(t) ==
    /\ cpc[t] = "lookup"
    /\ IF protocol_cache[ckey[t]].kind = "none"
       THEN /\ cpc' = [cpc EXCEPT ![t] = "wait_lock"]
            /\ UNCHANGED cret
       ELSE Found(t, protocol_cache[ckey[t]])
    /\ UNCHANGED <<protocol_cache, protocol_cache_lock, ckey, created, nextInst, epoch>>
    /\ UNCHANGED NotCache

\* with cls._protocol_cache_lock:
AcquireCacheLock(t) ==
    /\ cpc[t] = "wait_lock"
    /\ protocol_cache_lock = NoThread
    /\ protocol_cache_lock' = t
    /\ cpc' = [cpc EXCEPT ![t] = "locked_lookup"]
    /\ UNCHANGED <<protocol_cache, ckey, cret, created, nextInst, epoch>>
    /\ UNCHANGED NotCache

\* the second lookup, under the lock
LockedCheck(t) ==
    /\ cpc[t] = "locked_lookup"
    /\ protocol_cache_lock = t
    /\ IF LockedLookup(ckey[t]).kind = "none"
       THEN /\ cpc' = [cpc EXCEPT ![t] = "construct"]
            /\ UNCHANGED <<cret, protocol_cache_lock>>
       ELSE /\ Found(t, LockedLookup(ckey[t]))
            /\ protocol_cache_lock' = NoThread
    /\ UNCHANGED <<protocol_cache, ckey, created, nextInst, epoch>>
    /\ UNCHANGED NotCache

\* protocol = super().__call__(*args, **kwargs) succeeds, and the instance is cached
Construct(t) ==
    /\ cpc[t] = "construct"
    /\ protocol_cache_lock = t
    /\ nextInst <= MaxInst
    /\ created' = [created EXCEPT ![ckey[t]] = @ + 1]
    /\ protocol_cache' = [protocol_cache EXCEPT ![ckey[t]] = ProtocolEntry(nextInst)]
    /\ nextInst' = nextInst + 1
    /\ protocol_cache_lock' = NoThread
    /\ cpc' = [cpc EXCEPT ![t] = "returned"]
    /\ cret' = [cret EXCEPT ![t] =
                  [kind |-> "protocol", id |-> nextInst, key |-> ckey[t], epoch |-> epoch]]
    /\ UNCHANGED <<ckey, epoch>>
    /\ UNCHANGED NotCache

\* super().__call__ raises TransportError: the exception is cached and re-raised
ConstructFails(t) ==
    /\ cpc[t] = "construct"
    /\ protocol_cache_lock = t
    /\ protocol_cache' = [protocol_cache EXCEPT ![ckey[t]] = ExcEntry]
    /\ protocol_cache_lock' = NoThread
    /\ cpc' = [cpc EXCEPT ![t] = "raised"]
    /\ cret' = [cret EXCEPT ![t] =
                  [kind |-> "TransportError", id |-> 0, key |-> ckey[t], epoch |-> epoch]]
    /\ UNCHANGED <<ckey, created, nextInst, epoch>>
    /\ UNCHANGED NotCache

\* CachingProtocol.clear_cache(): under the lock, close every cached protocol and
\* empty the cache
ClearCache ==
    /\ protocol_cache_lock = NoThread
    /\ epoch < MaxClears
    /\ protocol_cache' = [k \in Keys |-> NoEntry]
    /\ created' = [k \in Keys |-> 0]
    /\ epoch' = epoch + 1
    /\ UNCHANGED <<protocol_cache_lock, cpc, ckey, cret, nextInst>>
    /\ UNCHANGED NotCache

NextCache ==
    \/ \E t \in Threads, c \in Configs : CallProtocol(t, c)
    \/ \E t \in Threads : Lookup(t)
    \/ \E t \in Threads : AcquireCacheLock(t)
    \/ \E t \in Threads : LockedCheck(t)
    \/ \E t \in Threads : Construct(t)
    \/ \E t \in Threads : ConstructFails(t)
    \/ ClearCache

InitSpecCache == InitCache /\ PoolIdle /\ PostIdle /\ VerIdle /\ MsgIdle /\ PageIdle /\ QueryIdle /\ CopyIdle /\ SliceIdle /\ SyncIdle /\ ElemIdle /\ RetryIdle /\ FieldsIdle

SpecCache == InitSpecCache /\ [][NextCache]_vars

\* C1: while the cache is not cleared, at most one Protocol instance is
\* constructed per (service_endpoint, credentials) key, and every construction
\* that returns for that key returns that one instance
OneProtocolPerKey ==
    /\ \A k \in Keys : created[k] <= 1
    /\ \A t1, t2 \in Threads :
         (/\ cret[t1].kind = "protocol" /\ cret[t2].kind = "protocol"
          /\ cret[t1].key = cret[t2].key
          /\ cret[t1].epoch = epoch /\ cret[t2].epoch = epoch)
         => cret[t1].id = cret[t2].id

\* two threads raced for the same key: one constructed, the other found the
\* entry only on its second lookup, under the lock, and both hold the instance
RacedForSameKey ==
    \E t1, t2 \in Threads :
        /\ t1 # t2
        /\ cret[t1].kind = "protocol" /\ cret[t2].kind = "protocol"
        /\ cret[t1].key = cret[t2].key
        /\ cret[t1].epoch = epoch /\ cret[t2].epoch = epoch
        /\ cpc[t1] = "returned" /\ cpc[t2] = "returned"
        /\ \E t3 \in Threads \ {t1, t2} : cpc[t3] = "locked_lookup" /\ ckey[t3] = cret[t1].key

----------------------------------------------------------------------------
(* BaseProtocol: the session pool *)

\* BaseProtocol.SESSION_POOLSIZE
SESSION_POOLSIZE == 1

\* __init__: self._session_pool_maxsize = config.max_connections or self.SESSION_POOLSIZE
PoolMaxsize(mc) == IF mc = 0 THEN SESSION_POOLSIZE ELSE mc

\* the check of increase_poolsize under the lock, left out
PoolFullLockedUnchecked == FALSE
\* increase_poolsize, under the lock: self._session_pool_size >= self._session_pool_maxsize
PoolFullLocked == session_pool_size >= session_pool_maxsize

InitPool ==
    /\ max_connections \in 0..MaxConn
    /\ session_pool_maxsize = PoolMaxsize(max_connections)
    /\ session_pool_size = 0
    /\ session_pool = 0
    /\ session_pool_lock = NoThread
    /\ ppc = [t \in Threads |-> "idle"]
    /\ pop = [t \in Threads |-> "none"]
    /\ held = [t \in Threads |-> 0]
    /\ pexc = [t \in Threads |-> "none"]

\* a thread calls one of the pool methods
CallGetSession(t) ==
    /\ ppc[t] = "idle" /\ held[t] = 0
    /\ ppc' = [ppc EXCEPT ![t] = "gs_try"]
    /\ pop' = [pop EXCEPT ![t] = "get_session"]
    /\ pexc' = [pexc EXCEPT ![t] = "none"]
    /\ UNCHANGED <<max_connections, session_pool_maxsize, session_pool_size, session_pool,
                   session_pool_lock, held>>
    /\ UNCHANGED NotPool

CallIncreasePoolsize(t) ==
    /\ ppc[t] = "idle"
    /\ ppc' = [ppc EXCEPT ![t] = "ip_check"]
    /\ pop' = [pop EXCEPT ![t] = "increase_poolsize"]
    /\ pexc' = [pexc EXCEPT ![t] = "none"]
    /\ UNCHANGED <<max_connections, session_pool_maxsize, session_pool_size, session_pool,
                   session_pool_lock, held>>
    /\ UNCHANGED NotPool

CallDecreasePoolsize(t) ==
    /\ ppc[t] = "idle"
    /\ ppc' = [ppc EXCEPT ![t] = "dp_check"]
    /\ pop' = [pop EXCEPT ![t] = "decrease_poolsize"]
    /\ pexc' = [pexc EXCEPT ![t] = "none"]
    /\ UNCHANGED <<max_connections, session_pool_maxsize, session_pool_size, session_pool,
                   session_pool_lock, held>>
    /\ UNCHANGED NotPool

\* release_session(session): self._session_pool.put(session, block=False)
\* (MAX_SESSION_USAGE_COUNT is None: the session is not renewed)
ReleaseSession(t) ==
    /\ ppc[t] = "idle" /\ held[t] > 0
    /\ session_pool' = session_pool + 1
    /\ held' = [held EXCEPT ![t] = @ - 1]
    /\ pop' = [pop EXCEPT ![t] = "release_session"]
    /\ pexc' = [pexc EXCEPT ![t] = "none"]
    /\ UNCHANGED <<max_connections, session_pool_maxsize, session_pool_size,
                   session_pool_lock, ppc>>
    /\ UNCHANGED NotPool

\* get_session has its session: it returns it to its caller, which is the
\* application or decrease_poolsize
GotSession(t) ==
    IF pop[t] = "decrease_poolsize"
    THEN /\ ppc' = [ppc EXCEPT ![t] = "dp_close"]
         /\ UNCHANGED held
    ELSE /\ ppc' = [ppc EXCEPT ![t] = "idle"]
         /\ held' = [held EXCEPT ![t] = @ + 1]

\* get_session: session = self._session_pool.get(block=False); on Empty the
\* thread goes on to increase_poolsize
GetSessionTry(t) ==
    /\ ppc[t] = "gs_try"
    /\ IF session_pool > 0
       THEN /\ session_pool' = session_pool - 1
            /\ GotSession(t)
       ELSE /\ ppc' = [ppc EXCEPT ![t] = "ip_check"]
            /\ UNCHANGED <<session_pool, held>>
    /\ UNCHANGED <<max_connections, session_pool_maxsize, session_pool_size,
                   session_pool_lock, pop, pexc>>
    /\ UNCHANGED NotPool

\* get_session: the loop around self._session_pool.get(timeout=_timeout), which
\* ends when the queue hands out a session
GetSessionWait(t) ==
    /\ ppc[t] = "gs_wait"
    /\ session_pool > 0
    /\ session_pool' = session_pool - 1
    /\ GotSession(t)
    /\ UNCHANGED <<max_connections, session_pool_maxsize, session_pool_size,
                   session_pool_lock, pop, pexc>>
    /\ UNCHANGED NotPool

\* increase_poolsize is over: back in get_session (which suppresses
\* SessionPoolMaxSizeReached), or back in the application
IncreaseDone(t, exc) ==
    IF pop[t] = "increase_poolsize"
    THEN /\ ppc' = [ppc EXCEPT ![t] = "idle"]
         /\ pexc' = [pexc EXCEPT ![t] = exc]
    ELSE /\ ppc' = [ppc EXCEPT ![t] = "gs_wait"]
         /\ UNCHANGED pexc

\* increase_poolsize: the check before the lock
IncreaseCheck(t) ==
    /\ ppc[t] = "ip_check"
    /\ IF session_pool_size >= session_pool_maxsize
       THEN IncreaseDone(t, "SessionPoolMaxSizeReached")
       ELSE /\ ppc' = [ppc EXCEPT ![t] = "ip_lock"]
            /\ UNCHANGED pexc
    /\ UNCHANGED <<max_connections, session_pool_maxsize, session_pool_size, session_pool,
                   session_pool_lock, pop, held>>
    /\ UNCHANGED NotPool

\* increase_poolsize: with self._session_pool_lock (a threading.Lock, which
\* is not reentrant: a thread that holds it waits here for ever)
IncreaseLock(t) ==
    /\ ppc[t] = "ip_lock"
    /\ session_pool_lock = NoThread
    /\ session_pool_lock' = t
    /\ ppc' = [ppc EXCEPT ![t] = "ip_locked"]
    /\ UNCHANGED <<max_connections, session_pool_maxsize, session_pool_size, session_pool,
                   pop, held, pexc>>
    /\ UNCHANGED NotPool

\* increase_poolsize under the lock: return if the pool is full by now, else
\* self._session_pool.put(self.create_session(), block=False)
IncreaseLocked(t) ==
    /\ ppc[t] = "ip_locked"
    /\ session_pool_lock = t
    /\ IF PoolFullLocked
       THEN /\ session_pool_lock' = NoThread
            /\ IncreaseDone(t, "none")
            /\ UNCHANGED session_pool
       ELSE /\ session_pool' = session_pool + 1
            /\ ppc' = [ppc EXCEPT ![t] = "ip_incr"]
            /\ UNCHANGED <<session_pool_lock, pexc>>
    /\ UNCHANGED <<max_connections, session_pool_maxsize, session_pool_size, pop, held>>
    /\ UNCHANGED NotPool

\* increase_poolsize: self._session_pool_size += 1, and the lock is released
IncreaseIncrement(t) ==
    /\ ppc[t] = "ip_incr"
    /\ session_pool_lock = t
    /\ session_pool_size' = session_pool_size + 1
    /\ session_pool_lock' = NoThread
    /\ IncreaseDone(t, "none")
    /\ UNCHANGED <<max_connections, session_pool_maxsize, session_pool, pop, held>>
    /\ UNCHANGED NotPool

\* decrease_poolsize: the check before the lock
DecreaseCheck(t) ==
    /\ ppc[t] = "dp_check"
    /\ IF session_pool_size <= 1
       THEN /\ ppc' = [ppc EXCEPT ![t] = "idle"]
            /\ pexc' = [pexc EXCEPT ![t] = "SessionPoolMinSizeReached"]
       ELSE /\ ppc' = [ppc EXCEPT ![t] = "dp_lock"]
            /\ UNCHANGED pexc
    /\ UNCHANGED <<max_connections, session_pool_maxsize, session_pool_size, session_pool,
                   session_pool_lock, pop, held>>
    /\ UNCHANGED NotPool

\* decrease_poolsize: with self._session_pool_lock
DecreaseLock(t) ==
    /\ ppc[t] = "dp_lock"
    /\ session_pool_lock = NoThread
    /\ session_pool_lock' = t
    /\ ppc' = [ppc EXCEPT ![t] = "dp_locked"]
    /\ UNCHANGED <<max_connections, session_pool_maxsize, session_pool_size, session_pool,
                   pop, held, pexc>>
    /\ UNCHANGED NotPool

\* the check of decrease_poolsize under the lock, left out
PoolMinLockedUnchecked == FALSE
\* decrease_poolsize, under the lock: self._session_pool_size <= 1
PoolMinLocked == session_pool_size <= 1

\* decrease_poolsize under the lock: return if the size is 1 by now, else
\* session = self.get_session()
DecreaseLocked(t) ==
    /\ ppc[t] = "dp_locked"
    /\ session_pool_lock = t
    /\ IF PoolMinLocked
       THEN /\ ppc' = [ppc EXCEPT ![t] = "idle"]
            /\ session_pool_lock' = NoThread
       ELSE /\ ppc' = [ppc EXCEPT ![t] = "gs_try"]
            /\ UNCHANGED session_pool_lock
    /\ UNCHANGED <<max_connections, session_pool_maxsize, session_pool_size, session_pool,
                   pop, held, pexc>>
    /\ UNCHANGED NotPool

\* decrease_poolsize: self.close_session(session); self._session_pool_size -= 1,
\* and the lock is released
DecreaseClose(t) ==
    /\ ppc[t] = "dp_close"
    /\ session_pool_lock = t
    /\ session_pool_size' = session_pool_size - 1
    /\ session_pool_lock' = NoThread
    /\ ppc' = [ppc EXCEPT ![t] = "idle"]
    /\ UNCHANGED <<max_connections, session_pool_maxsize, session_pool, pop, held, pexc>>
    /\ UNCHANGED NotPool

NextPool ==
    \/ \E t \in Threads : CallGetSession(t)
    \/ \E t \in Threads : CallIncreasePoolsize(t)
    \/ \E t \in Threads : CallDecreasePoolsize(t)
    \/ \E t \in Threads : ReleaseSession(t)
    \/ \E t \in Threads : GetSessionTry(t)
    \/ \E t \in Threads : GetSessionWait(t)
    \/ \E t \in Threads : IncreaseCheck(t)
    \/ \E t \in Threads : IncreaseLock(t)
    \/ \E t \in Threads : IncreaseLocked(t)
    \/ \E t \in Threads : IncreaseIncrement(t)
    \/ \E t \in Threads : DecreaseCheck(t)
    \/ \E t \in Threads : DecreaseLock(t)
    \/ \E t \in Threads : DecreaseLocked(t)
    \/ \E t \in Threads : DecreaseClose(t)

InitSpecPool == InitPool /\ CacheIdle /\ PostIdle /\ VerIdle /\ MsgIdle /\ PageIdle /\ QueryIdle /\ CopyIdle /\ SliceIdle /\ SyncIdle /\ ElemIdle /\ RetryIdle /\ FieldsIdle

SpecPool == InitSpecPool /\ [][NextPool]_vars

\* the sessions that exist: in the queue, checked out by a caller, or taken
\* by a decrease_poolsize that has not closed its session yet
SessionsAlive ==
    session_pool + Cardinality({t \in Threads : ppc[t] = "dp_close"})
    + Cardinality({t \in Threads : held[t] > 0})

\* C2: in every interleaving of get_session, release_session,
\* increase_poolsize and decrease_poolsize, the session pool size never
\* exceeds config.max_connections, or SESSION_POOLSIZE when that is unset;
\* nor does the number of sessions that exist
PoolSizeWithinMax ==
    /\ session_pool_size <= (IF max_connections = 0 THEN SESSION_POOLSIZE ELSE max_connections)
    /\ SessionsAlive <= (IF max_connections = 0 THEN SESSION_POOLSIZE ELSE max_connections)

\* C14: decrease_poolsize never lowers the session pool size below 1, in
\* any interleaving of concurrent calls; a call that finds the size at 1 or
\* less, before or under the lock, ends with SessionPoolMinSizeReached or
\* with a plain return and leaves the size as it is.
DecreaseKeepsOneSession ==
    [][/\ session_pool_size' < session_pool_size =>
             /\ session_pool_size' >= 1
             /\ \E t \in Threads : ppc[t] = "dp_close" /\ ppc'[t] = "idle"
       /\ \A t \in Threads :
             (ppc[t] \in {"dp_check", "dp_locked"} /\ session_pool_size <= 1
                                                    /\ ppc'[t] # ppc[t]) =>
                 /\ session_pool_size' = session_pool_size
                 /\ ppc'[t] = "idle"
                 /\ pexc'[t] = IF ppc[t] = "dp_check"
                               THEN "SessionPoolMinSizeReached" ELSE "none"]_vars

\* C14 witness: the size is down to 1, and a thread that passed the unlocked
\* check of decrease_poolsize while it was 2 is now inside the lock
PoolDecreasedByAnotherThread ==
    /\ session_pool_size = 1
    /\ \E t \in Threads :
          /\ ppc[t] = "dp_locked" /\ session_pool_lock = t
          /\ \E u \in Threads \ {t} : pop[u] = "decrease_poolsize" /\ ppc[u] = "idle"

\* the pool is full, and a thread that passed the unlocked check of
\* increase_poolsize while it was not is now inside the lock
PoolFilledByAnotherThread ==
    /\ session_pool_size = session_pool_maxsize
    /\ max_connections = MaxConn
    /\ \E t \in Threads : ppc[t] = "ip_locked" /\ session_pool_lock = t

\* ------------------------------------------------------------------------
\* post_ratelimited and the retry policies
\* (util.py 652-671, 687-964; protocol.py 256-280, 646-806)
\* ------------------------------------------------------------------------

RETRY_WAIT == 10
MAX_REDIRECTS == 10

Policies == {"FailFast", "FaultTolerance"}

\* Values of the Retry-After header; "absent" is a response without the header.
RetryAfterValues == {"absent", "5", "30", "soon"}

\* Where the location header of a redirect points: no header, the request
\* URL itself, another path on the request's server, the generic error page
\* of the request's server, or another server.
Locations == {"none", "same", "relative", "generic_error", "absolute"}

\* What the body of a response is: nothing, a SOAP document, a SOAP document
\* naming ErrorInvalidSchemaVersionForMailboxVersion, the "Server Error in
\* '/EWS' Application" page, a text saying "The specified server version is
\* invalid", a text saying the account is locked out, or some other text.
Contents == {"empty", "xml", "xml_invalid_version", "ews_error", "invalid_version",
             "locked_out", "text"}

\* is_xml(content): the body starts with "<?xml"
is_xml(content) == content \in {"xml", "xml_invalid_version"}

Resp(st, ra, cn, loc, ct, cas, hdr) ==
    [status_code |-> st, retry_after |-> ra, connection_close |-> cn, location |-> loc,
     content |-> ct, cas_error |-> cas, hdr |-> hdr]

\* DummyResponse(headers={hdr: e}, status_code=st): no content, no other header
DummyResponse(hdr, st) == Resp(st, "absent", FALSE, "none", "empty", FALSE, hdr)

\* The responses a server sends to session.post()
ServerResponses ==
    {Resp(200, "absent", FALSE, "none", "xml", FALSE, "none")}
    \cup {Resp(301, "absent", FALSE, loc, "empty", FALSE, "none") :
            loc \in {"relative", "absolute"}}
    \cup {Resp(302, "absent", FALSE, loc, "empty", FALSE, "none") : loc \in Locations}
    \cup {Resp(302, "absent", TRUE, "absolute", "empty", FALSE, "none")}
    \cup {Resp(401, "absent", FALSE, "none", "empty", FALSE, "none")}
    \cup {Resp(404, "absent", FALSE, "none", "text", cas, "none") : cas \in BOOLEAN}
    \cup {Resp(500, "absent", FALSE, "none", ct, FALSE, "none") : ct \in Contents}
    \cup {Resp(500, "absent", TRUE, "none", "text", FALSE, "none")}
    \cup {Resp(500, "absent", FALSE, "none", "text", TRUE, "none")}
    \cup {Resp(503, ra, FALSE, "none", "text", FALSE, "none") : ra \in RetryAfterValues}

\* What the except clauses around session.post() turn an exception into
PostExceptions == {"TLSError", "ConnectionError", "TokenExpiredError",
                   "KeyError_www_authenticate", "KeyError_other"}

\* retry_policy.back_off_until: None under FailFast; under FaultTolerance a
\* value that lies in the past is reset and read as None.
BackOffUntil ==
    IF policy = "FailFast" THEN NoTime
    ELSE IF back_off_until = NoTime THEN NoTime
    ELSE IF back_off_until < now THEN NoTime
    ELSE back_off_until

\* _back_off_if_needed(back_off_until): the seconds it sleeps, 0 for no sleep
BackOffSleep(until) ==
    IF until # NoTime /\ until - now > 0 THEN until - now ELSE 0

need_new_credentials(resp) ==
    resp.status_code = 401 /\ resp.hdr = "TokenExpiredError"

\* may_retry_on_error(response, wait): "retry", "no" or the exception raised
may_retry_on_error_impatient(pol, resp, w) ==
    IF pol = "FailFast" THEN "no"
    ELSE IF resp.status_code \notin {301, 302, 401, 500, 503} THEN "no"
    ELSE IF w >= max_wait THEN "RateLimitError"
    ELSE IF resp.status_code = 401 THEN "retry"
    ELSE IF resp.connection_close THEN "retry"
    ELSE IF resp.status_code = 302 /\ resp.location = "generic_error" THEN "retry"
    ELSE IF resp.status_code = 503 THEN "retry"
    ELSE IF resp.status_code = 500 /\ resp.content = "ews_error" THEN "retry"
    ELSE "no"

may_retry_on_error(pol, resp, w) ==
    IF pol = "FailFast" THEN "no"
    ELSE IF resp.status_code \notin {301, 302, 401, 500, 503} THEN "no"
    ELSE IF w > max_wait THEN "RateLimitError"
    ELSE IF resp.status_code = 401 THEN "retry"
    ELSE IF resp.connection_close THEN "retry"
    ELSE IF resp.status_code = 302 /\ resp.location = "generic_error" THEN "retry"
    ELSE IF resp.status_code = 503 THEN "retry"
    ELSE IF resp.status_code = 500 /\ resp.content = "ews_error" THEN "retry"
    ELSE "no"

\* int(r.headers.get("Retry-After", "0")): whether it parses, and its value
RetryAfterParses(v) == v # "soon"
RetryAfterInt(v) == CASE v = "absent" -> 0 [] v = "5" -> 5 [] v = "30" -> 30

_retry_after_header_wins(resp, w) ==
    IF RetryAfterParses(resp.retry_after) /\ resp.retry_after # "absent"
    THEN RetryAfterInt(resp.retry_after)
    ELSE w

_retry_after(resp, w) ==
    IF RetryAfterParses(resp.retry_after) /\ RetryAfterInt(resp.retry_after) > w
    THEN RetryAfterInt(resp.retry_after)
    ELSE w

\* get_redirect_url(response, allow_relative=False): "ok" or the exception
get_redirect_url(resp) ==
    CASE resp.location = "none" -> "TransportError"
      [] resp.location = "same" -> "TransportError"
      [] resp.location \in {"relative", "generic_error"} -> "RelativeRedirect"
      [] resp.location = "absolute" -> "ok"

\* _redirect_or_fail(response, redirects, allow_redirects): "ok" or the exception
_redirect_or_fail(resp, n, allow) ==
    IF get_redirect_url(resp) = "RelativeRedirect" THEN "RedirectError"
    ELSE IF get_redirect_url(resp) # "ok" THEN get_redirect_url(resp)
    ELSE IF ~allow THEN "TransportError"
    ELSE IF n + 1 > MAX_REDIRECTS THEN "TransportError"
    ELSE "ok"

\* raise_response_errors(response): the exception it raises
raise_response_errors(pol, resp) ==
    IF resp.cas_error THEN "CASError"
    ELSE IF resp.status_code = 500
            /\ resp.content \in {"invalid_version", "xml_invalid_version"}
         THEN "ErrorInvalidSchemaVersionForMailboxVersion"
    ELSE IF resp.content = "locked_out" THEN "UnauthorizedError"
    ELSE IF resp.status_code = 401 /\ pol = "FailFast" THEN "UnauthorizedError"
    ELSE IF resp.hdr = "TimeoutException" THEN "TimeoutException"
    ELSE "MalformedResponseError"

\* The test after the loop: the response is handed to the caller
UsefulResponseAny500(resp) ==
    \/ resp.status_code = 500
    \/ resp.status_code = 200

UsefulResponse(resp) ==
    \/ resp.status_code = 500 /\ resp.content # "empty" /\ is_xml(resp.content)
    \/ resp.status_code = 200

\* retire_session(session): closes the session and puts a fresh one in the pool
retire_session_leaking(s) ==
    [closed |-> sessions_closed, pooled |-> sessions_pooled, next |-> nextSess]

retire_session(s) ==
    [closed |-> sessions_closed \cup {s},
     pooled |-> sessions_pooled \cup {nextSess},
     next   |-> nextSess + 1]

\* post_ratelimited is called with a session taken from the pool. The policy
\* object is shared with other requests, one of which may have asked for a
\* back off that is still pending.
InitPost ==
    /\ policy \in Policies
    /\ max_wait \in (IF policy = "FaultTolerance" THEN {0, MaxWait} ELSE {0})
    /\ back_off_until \in (IF policy = "FaultTolerance" THEN {NoTime, 5} ELSE {NoTime})
    /\ allow_redirects \in BOOLEAN
    /\ now = 0
    /\ rpc = "loop"
    /\ session = 1
    /\ sessions_closed = {}
    /\ sessions_pooled = {}
    /\ nextSess = 2
    /\ wait = RETRY_WAIT
    /\ retry = 0
    /\ redirects = 0
    /\ t_start = 0
    /\ r = DummyResponse("none", 503)
    /\ raised = "none"
    /\ refreshes = 0
    /\ post_session = 0
    /\ total_wait = 0
    /\ outcome = "none"
    /\ delays = <<>>
    /\ delay_headers = <<>>

\* The raise of exception e inside the try block, through the except clauses
\* of lines 900-908, or after the loop, lines 912-918; o is recorded as what
\* became of the attempt.
RaiseInLoop(e, o) ==
    /\ sessions_closed' = retire_session(session).closed
    /\ sessions_pooled' = retire_session(session).pooled
    /\ nextSess' = retire_session(session).next
    /\ raised' = e
    /\ rpc' = "raised"
    /\ outcome' = o

\* Lines 822-838: sleep until the back off is over and renew the session; then
\* r starts as a dummy response.
BackOffIfNeeded ==
    /\ rpc = "loop"
    /\ back_off_until' = BackOffUntil
    /\ IF BackOffSleep(BackOffUntil) > 0
       THEN /\ now' = now + BackOffSleep(BackOffUntil)
            /\ sessions_closed' = sessions_closed \cup {session}
            /\ session' = nextSess
            /\ nextSess' = nextSess + 1
       ELSE UNCHANGED <<now, sessions_closed, session, nextSess>>
    /\ r' = DummyResponse("none", 503)
    /\ outcome' = "pending"
    /\ rpc' = "post"
    /\ UNCHANGED <<policy, max_wait, allow_redirects, sessions_pooled, wait, retry,
                   redirects, t_start, raised, refreshes, post_session, total_wait,
                   delays, delay_headers>>
    /\ UNCHANGED NotPost

\* Lines 835-843: session.post() answers with a response after d seconds.
PostAnswered(resp, d) ==
    /\ rpc = "post"
    /\ r' = resp
    /\ now' = now + d
    /\ post_session' = session
    /\ rpc' = "posted"
    /\ UNCHANGED <<policy, max_wait, back_off_until, allow_redirects, session,
                   sessions_closed, sessions_pooled, nextSess, wait, retry, redirects,
                   t_start, raised, refreshes, total_wait, outcome, delays, delay_headers>>
    /\ UNCHANGED NotPost

\* Lines 843-857: session.post() raises after d seconds.
PostFailed(e, d) ==
    /\ rpc = "post"
    /\ e = "TokenExpiredError" => refreshes < MaxRefresh
    /\ now' = now + d
    /\ post_session' = session
    /\ refreshes' = IF e = "TokenExpiredError" THEN refreshes + 1 ELSE refreshes
    /\ CASE e = "TLSError" ->
              /\ RaiseInLoop("TransportError", "post_raised")
              /\ r' = DummyResponse("none", 503)
         [] e = "KeyError_other" ->
              /\ RaiseInLoop("KeyError", "post_raised")
              /\ r' = DummyResponse("none", 503)
         [] e = "ConnectionError" ->
              /\ r' = DummyResponse("TimeoutException", 503)
              /\ rpc' = "posted"
              /\ UNCHANGED <<sessions_closed, sessions_pooled, nextSess, raised, outcome>>
         [] e = "TokenExpiredError" ->
              /\ r' = DummyResponse("TokenExpiredError", 401)
              /\ rpc' = "posted"
              /\ UNCHANGED <<sessions_closed, sessions_pooled, nextSess, raised, outcome>>
         [] e = "KeyError_www_authenticate" ->
              /\ r' = DummyResponse("KeyError", 503)
              /\ rpc' = "posted"
              /\ UNCHANGED <<sessions_closed, sessions_pooled, nextSess, raised, outcome>>
    /\ UNCHANGED <<policy, max_wait, back_off_until, allow_redirects, session, wait,
                   retry, redirects, t_start, total_wait, delays, delay_headers>>
    /\ UNCHANGED NotPost

\* Lines 875-878: the token expired; refresh_credentials renews the session.
RefreshCredentials ==
    /\ rpc = "posted"
    /\ need_new_credentials(r)
    /\ sessions_closed' = sessions_closed \cup {session}
    /\ session' = nextSess
    /\ nextSess' = nextSess + 1
    /\ outcome' = "refresh"
    /\ rpc' = "loop"
    /\ UNCHANGED <<policy, max_wait, back_off_until, allow_redirects, now, sessions_pooled,
                   wait, retry, redirects, t_start, r, raised, refreshes, post_session,
                   total_wait, delays, delay_headers>>
    /\ UNCHANGED NotPost

\* Lines 879-894: the policy allows a retry, or loses patience.
Retry ==
    /\ rpc = "posted"
    /\ ~need_new_credentials(r)
    /\ may_retry_on_error(policy, r, now - t_start) # "no"
    /\ total_wait' = now - t_start
    /\ IF may_retry_on_error(policy, r, now - t_start) = "retry"
       THEN /\ back_off_until' = now + _retry_after(r, wait)
            /\ delays' = Append(delays, _retry_after(r, wait))
            /\ delay_headers' = Append(delay_headers, r.retry_after)
            /\ retry' = retry + 1
            /\ wait' = 2 * _retry_after(r, wait)
            /\ outcome' = "retry"
            /\ rpc' = "loop"
            /\ UNCHANGED <<sessions_closed, sessions_pooled, nextSess, raised>>
       ELSE /\ RaiseInLoop(may_retry_on_error(policy, r, now - t_start), "raised")
            /\ UNCHANGED <<back_off_until, delays, delay_headers, retry, wait>>
    /\ UNCHANGED <<policy, max_wait, allow_redirects, now, session, redirects, t_start,
                   r, refreshes, post_session>>
    /\ UNCHANGED NotPost

\* Lines 895-898: a redirect is followed or fails.
Redirect ==
    /\ rpc = "posted"
    /\ ~need_new_credentials(r)
    /\ may_retry_on_error(policy, r, now - t_start) = "no"
    /\ r.status_code \in {301, 302}
    /\ total_wait' = now - t_start
    /\ IF _redirect_or_fail(r, redirects, allow_redirects) = "ok"
       THEN /\ redirects' = redirects + 1
            /\ outcome' = "redirect"
            /\ rpc' = "loop"
            /\ UNCHANGED <<sessions_closed, sessions_pooled, nextSess, raised>>
       ELSE /\ RaiseInLoop(_redirect_or_fail(r, redirects, allow_redirects), "raised")
            /\ UNCHANGED redirects
    /\ UNCHANGED <<policy, max_wait, back_off_until, allow_redirects, now, session, wait,
                   retry, t_start, r, refreshes, post_session, delays, delay_headers>>
    /\ UNCHANGED NotPost

\* Lines 899, 909-920: the loop is left; the response is returned or raised.
Break ==
    /\ rpc = "posted"
    /\ ~need_new_credentials(r)
    /\ may_retry_on_error(policy, r, now - t_start) = "no"
    /\ r.status_code \notin {301, 302}
    /\ total_wait' = now - t_start
    /\ IF UsefulResponse(r)
       THEN /\ rpc' = "returned"
            /\ outcome' = "returned"
            /\ UNCHANGED <<sessions_closed, sessions_pooled, nextSess, raised>>
       ELSE RaiseInLoop(raise_response_errors(policy, r), "raised")
    /\ UNCHANGED <<policy, max_wait, back_off_until, allow_redirects, now, session, wait,
                   retry, redirects, t_start, r, refreshes, post_session, delays,
                   delay_headers>>
    /\ UNCHANGED NotPost

NextPost ==
    \/ BackOffIfNeeded
    \/ \E resp \in ServerResponses, d \in {0, MaxPostTime} : PostAnswered(resp, d)
    \/ \E e \in PostExceptions, d \in {0, MaxPostTime} : PostFailed(e, d)
    \/ RefreshCredentials
    \/ Retry
    \/ Redirect
    \/ Break

InitSpecPost == InitPost /\ CacheIdle /\ PoolIdle /\ VerIdle /\ MsgIdle /\ PageIdle /\ QueryIdle /\ CopyIdle /\ SliceIdle /\ SyncIdle /\ ElemIdle /\ RetryIdle /\ FieldsIdle

SpecPost == InitSpecPost /\ [][NextPost]_vars

\* The loop has dealt with the response in r.
Classified == outcome \in {"refresh", "retry", "redirect", "returned", "raised"}

\* r was sent by the server, not made up for an exception of session.post().
FromServer(resp) == resp.hdr = "none"

RetryableFailure(resp) ==
    \/ resp.status_code \in {401, 503}
    \/ resp.status_code \in {301, 302, 500} /\ resp.connection_close
    \/ resp.status_code = 302 /\ resp.location = "generic_error"
    \/ resp.status_code = 500 /\ resp.content = "ews_error"

\* C4: under FaultTolerance a retryable failure is retried, whatever the number
\* of retries so far, exactly as long as the time elapsed since t_start does not
\* exceed max_wait; once it does, RateLimitError is raised. RateLimitError is
\* raised for no other reason.
GivesUpOnMaxWaitOnly ==
    /\ (policy = "FaultTolerance" /\ Classified /\ outcome # "refresh"
        /\ RetryableFailure(r)) =>
          IF total_wait > max_wait
          THEN rpc = "raised" /\ raised = "RateLimitError"
          ELSE outcome = "retry" /\ rpc = "loop"
    /\ raised = "RateLimitError" =>
          policy = "FaultTolerance" /\ total_wait > max_wait

\* C4 witness: RateLimitError after three retries.
GaveUpAfterThreeRetries ==
    /\ rpc = "raised"
    /\ raised = "RateLimitError"
    /\ retry >= 3

FirstDelayIsRetryWait ==
    Len(delays) >= 1 =>
        /\ delays[1] = RETRY_WAIT
        /\ \A i \in 2..Len(delays) : delays[i] >= 2 * delays[i - 1]

\* The larger of a and b
Larger(a, b) == IF a > b THEN a ELSE b

\* The integer a Retry-After header asks for, 0 when it asks for none
Asked(v) == IF RetryAfterParses(v) THEN RetryAfterInt(v) ELSE 0

\* C6, amended: the first delay handed to back_off is RETRY_WAIT, or the
\* integer of the response's Retry-After header when that is larger; every
\* following delay is twice the one before, or the integer of its response's
\* Retry-After header when that is larger, so at least twice the one before.
DelaysDoubleFromRetryWaitOrHeader ==
    /\ Len(delays) = retry
    /\ Len(delay_headers) = retry
    /\ Len(delays) >= 1 =>
          /\ delays[1] = Larger(RETRY_WAIT, Asked(delay_headers[1]))
          /\ \A i \in 2..Len(delays) :
                /\ delays[i] = Larger(2 * delays[i - 1], Asked(delay_headers[i]))
                /\ delays[i] >= 2 * delays[i - 1]

\* C6 witness: two retries, the first one delayed by more than RETRY_WAIT.
RetriedTwiceFirstByHeader ==
    /\ Len(delays) >= 2
    /\ delays[1] > RETRY_WAIT
    /\ delay_headers[1] = "30"

----------------------------------------------------------------------------
(* EWSService._get_response_xml: the negotiation of the API version
   (services/common.py 321-413) *)

\* The API versions the package knows, newest first. A version is numbered by
\* its age: the larger number is the newer version. 0 is a version the package
\* does not know.
API_VERSIONS == [i \in 1..MaxVersions |-> MaxVersions + 1 - i]

KnownVersions == {API_VERSIONS[i] : i \in 1..MaxVersions}

Services == {"EWSService", "EWSAccountService"}

NO_VALID_SERVER_VERSIONS(s) ==
    IF s = "EWSAccountService" THEN "ErrorInvalidSchemaVersionForMailboxVersion"
    ELSE "ErrorInvalidServerVersion"

\* The errors of _get_soap_messages after which the next version is tried
VersionErrors == {"ErrorInvalidServerVersion", "ErrorIncorrectSchemaVersion",
                  "ErrorInvalidRequest", "ErrorInvalidSchemaVersionForMailboxVersion"}

_api_versions_to_try_hint_twice(hint) ==
    <<hint>> \o API_VERSIONS

_api_versions_to_try(hint) ==
    <<hint>> \o SelectSeq(API_VERSIONS, LAMBDA v : v # hint)

\* What comes back for one request. kind: post_ratelimited raises
\* ("transport_error", or "http500_invalid_version" for the HTTP 500 that
\* raise_response_errors turns into ErrorInvalidSchemaVersionForMailboxVersion);
\* the response is no SOAP document ("bad_soap"); the SOAP body holds the
\* response messages ("messages") or a fault, named by the error it stands for.
\* header: the SOAP header is missing ("none"), carries no usable version
\* ("unparsable") or carries the version head_version ("version").
Answers ==
    {[kind |-> k, header |-> "none", head_version |-> 0] :
        k \in {"transport_error", "http500_invalid_version", "bad_soap"}}
    \cup {[kind |-> k, header |-> h, head_version |-> 0] :
            k \in {"messages", "ErrorExceededConnectionCount", "ErrorServerBusy"}
                  \cup VersionErrors,
            h \in {"none", "unparsable"}}
    \cup {[kind |-> k, header |-> "version", head_version |-> v] :
            k \in {"messages", "ErrorExceededConnectionCount", "ErrorServerBusy"}
                  \cup VersionErrors,
            v \in KnownVersions}

\* _update_api_version: the version hint after the header was read
_update_api_version(hint, a) ==
    IF a.header = "version" THEN a.head_version ELSE hint

\* The request starts: the for statement evaluates _api_versions_to_try once.
InitVer ==
    /\ svc \in Services
    /\ version_hint \in 0..MaxVersions
    /\ hint0 = version_hint
    /\ v_pool_size \in 1..MaxConn
    /\ api_versions = _api_versions_to_try(version_hint)
    /\ vidx = 1
    /\ vpc = "loop"
    /\ vresult = "none"
    /\ vraised_by = "none"
    /\ tried = <<>>
    /\ answers = <<>>

\* The end of one pass of the loop body: the next version, or the raise after
\* the loop when there is none.
Continue ==
    IF vidx = Len(api_versions)
    THEN /\ vpc' = "done"
         /\ vresult' = NO_VALID_SERVER_VERSIONS(svc)
         /\ vraised_by' = "loop_end"
         /\ UNCHANGED vidx
    ELSE /\ vidx' = vidx + 1
         /\ UNCHANGED <<vpc, vresult, vraised_by>>

\* A raise or return inside the loop body
Leave(result, by) ==
    /\ vpc' = "done"
    /\ vresult' = result
    /\ vraised_by' = by
    /\ UNCHANGED vidx

\* One pass of the loop body, lines 341-378, with the server answering a.
TryApiVersion(a) ==
    /\ vpc = "loop"
    /\ tried' = Append(tried, api_versions[vidx])
    /\ answers' = Append(answers, a.kind)
    /\ CASE a.kind = "transport_error" ->
              /\ Leave("TransportError", "_get_response")
              /\ UNCHANGED <<version_hint, v_pool_size>>
         [] a.kind = "http500_invalid_version" ->
              /\ Leave("ErrorInvalidSchemaVersionForMailboxVersion", "_get_response")
              /\ UNCHANGED <<version_hint, v_pool_size>>
         [] a.kind = "bad_soap" ->
              /\ Leave("SOAPError", "_get_soap_parts")
              /\ UNCHANGED <<version_hint, v_pool_size>>
         [] a.kind = "messages" ->
              /\ version_hint' = _update_api_version(version_hint, a)
              /\ Leave("returned", "none")
              /\ UNCHANGED v_pool_size
         [] a.kind \in VersionErrors ->
              /\ version_hint' = _update_api_version(version_hint, a)
              /\ Continue
              /\ UNCHANGED v_pool_size
         [] a.kind = "ErrorExceededConnectionCount" ->
              /\ version_hint' = _update_api_version(version_hint, a)
              /\ IF v_pool_size <= 1
                 THEN /\ Leave("ErrorExceededConnectionCount", "_get_soap_messages")
                      /\ UNCHANGED v_pool_size
                 ELSE /\ v_pool_size' = v_pool_size - 1
                      /\ Continue
         [] OTHER ->
              /\ version_hint' = _update_api_version(version_hint, a)
              /\ Leave(a.kind, "_get_soap_messages")
              /\ UNCHANGED v_pool_size
    /\ UNCHANGED <<svc, api_versions, hint0>>
    /\ UNCHANGED NotVer

NextVer == \E a \in Answers : TryApiVersion(a)

InitSpecVer == InitVer /\ CacheIdle /\ PoolIdle /\ PostIdle /\ MsgIdle /\ PageIdle /\ QueryIdle /\ CopyIdle /\ SliceIdle /\ SyncIdle /\ ElemIdle /\ RetryIdle /\ FieldsIdle

SpecVer == InitSpecVer /\ [][NextVer]_vars

\* The known versions other than the hint the request started with
OtherVersions == KnownVersions \ {hint0}

\* C7: the first version sent is the version hint the request started with; the
\* i-th version sent after it is the i-th newest of the other known versions,
\* so none is sent twice and none is skipped; and when every version sent was
\* answered with a version error, all of them were sent and the service's
\* NO_VALID_SERVER_VERSIONS was raised after the loop.
HintFirstThenNewestToOldest ==
    /\ \A i \in 1..Len(tried) :
          IF i = 1 THEN tried[i] = hint0
          ELSE /\ tried[i] \in OtherVersions
               /\ Cardinality({v \in OtherVersions : v > tried[i]}) = i - 2
    /\ (vpc = "done" /\ \A i \in 1..Len(answers) : answers[i] \in VersionErrors) =>
          /\ Len(tried) = 1 + Cardinality(OtherVersions)
          /\ vresult = NO_VALID_SERVER_VERSIONS(svc)
          /\ vraised_by = "loop_end"

\* C7 witness: every known version was sent and rejected with a version error,
\* the hint being a known version that the headers changed on the way.
AllVersionsRejected ==
    /\ vpc = "done"
    /\ vraised_by = "loop_end"
    /\ \A i \in 1..Len(answers) : answers[i] \in VersionErrors
    /\ Len(tried) = MaxVersions
    /\ version_hint # hint0

\* C20: a pass answered with ErrorExceededConnectionCount while the session
\* pool can still be decreased lowers the pool size by one and leaves the
\* request in its loop with the same API version as the next one to send.
ExceededConnectionCountKeepsVersion ==
    [][(/\ vpc = "loop"
        /\ Len(answers') = Len(answers) + 1
        /\ answers'[Len(answers')] = "ErrorExceededConnectionCount"
        /\ v_pool_size > 1)
         => /\ v_pool_size' = v_pool_size - 1
            /\ vpc' = "loop"
            /\ api_versions'[vidx'] = api_versions[vidx]]_vars

----------------------------------------------------------------------------
(* EWSService._get_elements_in_response and _get_element_container: the
   decoding of the response messages (services/common.py 83-101, 499-636) *)

MsgServices == {"EWSService", "CreateFolder", "ExpandDL", "GetDelegate", "ExportItems"}

\* The service names an element_container_name
HasContainerName(s) == s \in {"CreateFolder", "ExpandDL", "ExportItems"}

DefaultErrorsToCatch ==
    {"EWSWarning", "ErrorCannotDeleteObject", "ErrorInvalidChangeKey", "ErrorItemNotFound",
     "ErrorItemSave", "ErrorInvalidIdMalformed", "ErrorMessageSizeExceeded",
     "ErrorCannotDeleteTaskOccurrence", "ErrorMimeContentConversionFailed",
     "ErrorRecurrenceHasNoOccurrence", "ErrorCorruptData", "ErrorItemCorrupt",
     "ErrorMailRecipientNotFound"}

ERRORS_TO_CATCH_IN_RESPONSE(s) ==
    CASE s = "CreateFolder" -> DefaultErrorsToCatch \cup {"ErrorFolderExists"}
      [] s = "GetDelegate" -> {}
      [] s = "ExportItems" -> {"ResponseMessageError"}
      [] OTHER -> DefaultErrorsToCatch

WARNINGS_TO_CATCH_IN_RESPONSE(s) == {"ErrorBatchProcessingStopped"}

WARNINGS_TO_IGNORE_IN_RESPONSE(s) ==
    IF s = "ExpandDL" THEN {"ErrorNameResolutionMultipleResults"} ELSE {}

\* The response codes a message carries: none at all (""), NoError, codes that
\* name an exception class of the errors module, and one that names none.
ResponseCodes == {"", "NoError", "ErrorBatchProcessingStopped", "ErrorItemNotFound",
                  "ErrorFolderExists", "ErrorNameResolutionMultipleResults",
                  "ErrorServerBusy", "ErrorNotInErrorsModule"}

\* The InnerErrorResponseCode of the MessageXml; "" when there is none
InnerCodes == {"", "ErrorItemNotFound"}

\* vars(errors)[code] finds a class
InErrorsModule(code) == code \notin {"", "NoError", "ErrorNotInErrorsModule"}

\* isinstance(an instance of exc, cls): the classes made from response codes
\* all derive from ResponseMessageError, which derives from TransportError.
IsInstance(exc, cls) ==
    \/ exc = cls
    \/ cls = "ResponseMessageError" /\ exc # "TransportError"
    \/ cls = "TransportError"

\* An except clause listing the classes in list catches an instance of exc
Catches(list, exc) == \E cls \in list : IsInstance(exc, cls)

Messages ==
    [response_class : {"Success", "Warning", "Error"},
     response_code : ResponseCodes,
     inner_code : InnerCodes,
     container : BOOLEAN]

\* _get_exception(code, text, msg_xml): the class of the exception it makes
_get_exception(m) ==
    IF m.response_code = "" THEN "TransportError"
    ELSE IF m.inner_code # "" /\ InErrorsModule(m.inner_code) THEN m.inner_code
    ELSE IF InErrorsModule(m.response_code) THEN m.response_code
    ELSE "TransportError"

\* message.find(name): the container, or MalformedResponseError when missing
FindContainer(m) ==
    IF m.container
    THEN [kind |-> "container", exc |-> "none"]
    ELSE [kind |-> "raise", exc |-> "MalformedResponseError"]

\* The except clauses of the warning branch, lines 543 and 545
WarningsCaughtWithErrors(s) ==
    WARNINGS_TO_CATCH_IN_RESPONSE(s) \cup ERRORS_TO_CATCH_IN_RESPONSE(s)

WarningsCaught(s) == WARNINGS_TO_CATCH_IN_RESPONSE(s)

\* _get_element_container(message, name): what it returns or raises
_get_element_container(s, m) ==
    IF m.response_class = "Success" /\ m.response_code = "NoError"
    THEN IF ~HasContainerName(s) THEN [kind |-> "message", exc |-> "none"]
         ELSE FindContainer(m)
    ELSE IF m.response_code = "NoError" THEN [kind |-> "true", exc |-> "none"]
    ELSE IF m.response_class = "Warning"
    THEN IF Catches(WarningsCaught(s), _get_exception(m))
         THEN [kind |-> "exception", exc |-> _get_exception(m)]
         ELSE IF Catches(WARNINGS_TO_IGNORE_IN_RESPONSE(s), _get_exception(m))
         THEN FindContainer(m)
         ELSE [kind |-> "raise", exc |-> _get_exception(m)]
    ELSE IF Catches(ERRORS_TO_CATCH_IN_RESPONSE(s), _get_exception(m))
         THEN [kind |-> "exception", exc |-> _get_exception(m)]
         ELSE [kind |-> "raise", exc |-> _get_exception(m)]

InitMsg ==
    /\ msvc \in MsgServices
    /\ mpc = "loop"
    /\ mcount = 0
    /\ msg = [response_class |-> "Success", response_code |-> "NoError",
              inner_code |-> "", container |-> TRUE]
    /\ mresult = "none"
    /\ mexc = "none"
    /\ results = <<>>

\* One pass of the for loop of _get_elements_in_response, lines 630-636, over
\* the response message m.
NextMessage(m) ==
    /\ mpc = "loop"
    /\ mcount < MaxMsgs
    /\ mcount' = mcount + 1
    /\ msg' = m
    /\ mresult' = _get_element_container(msvc, m).kind
    /\ mexc' = _get_element_container(msvc, m).exc
    /\ IF _get_element_container(msvc, m).kind = "raise"
       THEN /\ mpc' = "raised"
            /\ UNCHANGED results
       ELSE /\ results' = Append(results,
                 IF _get_element_container(msvc, m).kind = "exception"
                 THEN _get_element_container(msvc, m).exc
                 ELSE _get_element_container(msvc, m).kind)
            /\ UNCHANGED mpc
    /\ UNCHANGED msvc
    /\ UNCHANGED NotMsg

\* The response has no further message.
EndOfMessages ==
    /\ mpc = "loop"
    /\ mpc' = "done"
    /\ UNCHANGED <<msvc, mcount, msg, mresult, mexc, results>>
    /\ UNCHANGED NotMsg

NextMsg ==
    \/ \E m \in Messages : NextMessage(m)
    \/ EndOfMessages

InitSpecMsg == InitMsg /\ CacheIdle /\ PoolIdle /\ PostIdle /\ VerIdle /\ PageIdle /\ QueryIdle /\ CopyIdle /\ SliceIdle /\ SyncIdle /\ ElemIdle /\ RetryIdle /\ FieldsIdle

SpecMsg == InitSpecMsg /\ [][NextMsg]_vars

\* The message taken last carries a warning or an error
CarriesWarningOrError == mcount > 0 /\ msg.response_code # "NoError"

\* The exception of the message taken last was put in the result stream
Returned ==
    /\ mresult = "exception"
    /\ mexc = _get_exception(msg)
    /\ Len(results) > 0
    /\ results[Len(results)] = mexc

\* The exception of the message taken last was raised
Raised == mresult = "raise" /\ mexc = _get_exception(msg) /\ mpc = "raised"

----------------------------------------------------------------------------
(* EWSPagingService._paged_call (services/common.py 712-854) *)

\* What _get_page makes of one response message: an exception (with next
\* offset None), no page (TotalItemsInView is 0, next offset None), or a page
\* of n elements with a next offset. The server puts at most page_size
\* elements in a page. Offset 0 stands for None.
PagesOf(size) ==
    {[kind |-> "exception", n |-> 0, next_offset |-> 0],
     [kind |-> "none", n |-> 0, next_offset |-> 0]}
    \cup [kind : {"page"}, n : 0..size, next_offset : 0..MaxOffset]

\* The smallest element of a non-empty set of numbers
Lowest(S) == CHOOSE x \in S : \A y \in S : x <= y

\* _get_elems_from_page(elem, max_items, total_item_count): the number of
\* elements it yields from a page of n elements. total_item_count is the
\* generator's own argument: it keeps the value it was called with.
RECURSIVE _get_elems_from_page(_, _, _)
_get_elems_from_page(n, max, total) ==
    IF n = 0 THEN 0
    ELSE IF max # 0 /\ total >= max THEN 0
    ELSE 1 + _get_elems_from_page(n - 1, max, total)

\* f removed from the paging infos
Without(infos, f) == [g \in DOMAIN infos \ {f} |-> infos[g]]

\* The for loop of lines 736-770 over the folders fs not yet dealt with, in
\* the order of the dictionary. st holds paging_infos, total_item_count and the
\* numbers of elements and exceptions yielded.
RECURSIVE PageLoop(_, _, _)
PageLoop(fs, pages, st) ==
    IF fs = {} THEN st
    ELSE LET f == Lowest(fs)
             pg == pages[f]
             k == _get_elems_from_page(pg.n, max_items, st.total)
             counted == [st.infos EXCEPT ![f] =
                            [item_count |-> @.item_count + k,
                             next_offset |-> pg.next_offset]]
         IN  IF pg.kind = "exception"
             THEN PageLoop(fs \ {f}, pages,
                           [st EXCEPT !.infos = Without(st.infos, f),
                                      !.exceptions = @ + 1])
             ELSE IF pg.kind = "page" /\ max_items # 0 /\ st.total + k >= max_items
             THEN [st EXCEPT !.infos = counted, !.total = @ + k, !.yielded = @ + k]
             ELSE IF pg.kind = "page"
             THEN PageLoop(fs \ {f}, pages,
                           [st EXCEPT !.infos = IF pg.next_offset = 0
                                                THEN Without(st.infos, f)
                                                ELSE counted,
                                      !.total = @ + k,
                                      !.yielded = @ + k])
             ELSE PageLoop(fs \ {f}, pages,
                           [st EXCEPT !.infos = Without(st.infos, f)])

\* _get_next_offset(paging_infos.values()); 0 stands for None
_get_next_offset(infos) ==
    IF {infos[f].next_offset : f \in DOMAIN infos} \ {0} = {} THEN 0
    ELSE Lowest({infos[f].next_offset : f \in DOMAIN infos} \ {0})

\* Lines 725-727: a call with max_items > 0 on one or more folders.
InitPage ==
    /\ max_items \in 1..MaxItems
    /\ page_size \in 1..MaxPageSize
    /\ \E nf \in 1..MaxFolders :
          paging_infos = [f \in 1..nf |-> [item_count |-> 0, next_offset |-> 0]]
    /\ common_next_offset = 0
    /\ total_item_count = 0
    /\ pgpc = "loop"
    /\ rounds = 0
    /\ yielded = 0
    /\ yielded_exceptions = 0

\* One pass of the while loop, lines 728-778: a page request is sent and the
\* server answers with one page for each folder still paged.
GetPages(pages) ==
    /\ pgpc = "loop"
    /\ rounds < MaxRounds
    /\ LET st == PageLoop(DOMAIN paging_infos, pages,
                          [infos |-> paging_infos, total |-> total_item_count,
                           yielded |-> yielded, exceptions |-> yielded_exceptions])
       IN  /\ paging_infos' = st.infos
           /\ total_item_count' = st.total
           /\ yielded' = st.yielded
           /\ yielded_exceptions' = st.exceptions
           /\ IF max_items # 0 /\ st.total >= max_items
              THEN /\ pgpc' = "done"
                   /\ UNCHANGED common_next_offset
              ELSE /\ common_next_offset' = _get_next_offset(st.infos)
                   /\ pgpc' = IF _get_next_offset(st.infos) = 0 \/ DOMAIN st.infos = {}
                              THEN "done" ELSE "loop"
    /\ rounds' = rounds + 1
    /\ UNCHANGED <<max_items, page_size>>
    /\ UNCHANGED NotPage

\* _get_pages raises: the request failed, or the response does not hold one
\* message for each folder.
GetPagesRaises ==
    /\ pgpc = "loop"
    /\ rounds < MaxRounds
    /\ pgpc' = "raised"
    /\ rounds' = rounds + 1
    /\ UNCHANGED <<max_items, page_size, paging_infos, common_next_offset,
                   total_item_count, yielded, yielded_exceptions>>
    /\ UNCHANGED NotPage

NextPage ==
    \/ \E pages \in [DOMAIN paging_infos -> PagesOf(page_size)] : GetPages(pages)
    \/ GetPagesRaises

InitSpecPage == InitPage /\ CacheIdle /\ PoolIdle /\ PostIdle /\ VerIdle /\ MsgIdle /\ QueryIdle /\ CopyIdle /\ SliceIdle /\ SyncIdle /\ ElemIdle /\ RetryIdle /\ FieldsIdle

SpecPage == InitSpecPage /\ [][NextPage]_vars

\* C9 as stated: a paged call with max_items = n > 0 yields at most n elements,
\* the exceptions it yields for failed folders not counted.
AtMostMaxItems ==
    max_items > 0 => yielded <= max_items

----------------------------------------------------------------------------
(* QuerySet: chaining and evaluation (queryset.py 47-503), over a
   FolderCollection whose folders may be a generator over the folder
   hierarchy of the root (folders/collections.py 25-49, folders/base.py
   126-151, folders/roots.py 98-193) *)

ChainingMethods == {"all", "none", "filter", "exclude", "people", "only", "order_by",
                    "reverse", "values", "values_list", "depth"}

\* The chaining methods that take field names
FieldMethods == {"only", "order_by", "values", "values_list"}

\* q & Q(...) and q & ~Q(...): a restriction is added; Q.NEVER stays Q.NEVER
QAnd(old) == IF old = "never" THEN "never" ELSE "some"

\* Q.is_never: the restriction matches nothing
is_never(x) == x = "never"

\* _get_field_path and _get_field_order loop over self.folder_collection,
\* unless the query set searches for personas.
_get_field_path_always_iterates(rtype) == TRUE

_get_field_path_iterates(rtype) == rtype = "item"

\* FolderCollection.folders is computed: tuple(self._folders) runs a generator
\* of get_children, which reads the root's _folders_map and so loads the
\* folder hierarchy from the server unless _subfolders is cached.
LoadsHierarchy ==
    ~folders_resolved /\ folders_kind = "generator" /\ ~subfolders_cached

ResolveFolders ==
    /\ folders_resolved' = TRUE
    /\ subfolders_cached' = (subfolders_cached \/ (~folders_resolved /\ folders_kind = "generator"))
    /\ hierarchy_loads' = IF LoadsHierarchy THEN hierarchy_loads + 1 ELSE hierarchy_loads

FoldersUntouched == UNCHANGED <<folders_resolved, subfolders_cached, hierarchy_loads>>

\* QuerySet(folder_collection): no folder is looked at, nothing is sent.
InitQuery ==
    /\ request_type = "item"
    /\ q = "all"
    /\ only_fields = NoFields
    /\ order_fields = NoFields
    /\ return_format = "none"
    /\ qdepth = "None"
    /\ folders_kind \in {"list", "generator"}
    /\ folders_found \in BOOLEAN
    /\ folders_resolved = FALSE
    /\ subfolders_cached \in BOOLEAN
    /\ item_requests = 0
    /\ hierarchy_loads = 0
    /\ qop = "none"
    /\ qargs = 0
    /\ qexc = "none"
    /\ qsteps = 0
    /\ evals = 0

\* What every chaining call records
Called(op, n, e) ==
    /\ qsteps < MaxChain
    /\ qsteps' = qsteps + 1
    /\ qop' = op
    /\ qargs' = n
    /\ qexc' = e
    /\ UNCHANGED <<folders_kind, folders_found, item_requests, evals>>
    /\ UNCHANGED NotQuery

All ==
    /\ Called("all", 0, "none")
    /\ FoldersUntouched
    /\ UNCHANGED <<request_type, q, only_fields, order_fields, return_format, qdepth>>

None ==
    /\ Called("none", 0, "none")
    /\ q' = "never"
    /\ FoldersUntouched
    /\ UNCHANGED <<request_type, only_fields, order_fields, return_format, qdepth>>

Filter ==
    /\ Called("filter", 0, "none")
    /\ q' = QAnd(q)
    /\ FoldersUntouched
    /\ UNCHANGED <<request_type, only_fields, order_fields, return_format, qdepth>>

Exclude ==
    /\ Called("exclude", 0, "none")
    /\ q' = QAnd(q)
    /\ FoldersUntouched
    /\ UNCHANGED <<request_type, only_fields, order_fields, return_format, qdepth>>

People ==
    /\ Called("people", 0, "none")
    /\ request_type' = "persona"
    /\ FoldersUntouched
    /\ UNCHANGED <<q, only_fields, order_fields, return_format, qdepth>>

\* tuple(self._get_field_path(arg) for arg in args) for n field names, known
\* telling whether some folder knows them: "none", or the exception raised.
\* The folders are resolved by the first field name.
\* A persona query set asks the Persona class instead. InvalidField is a
\* ValueError, re-raised by the caller as a ValueError naming the method.
FieldPaths(n, known) ==
    IF n = 0 THEN "none"
    ELSE IF ~_get_field_path_iterates(request_type)
         THEN IF known THEN "none" ELSE "unknown field path"
    ELSE IF folders_found /\ known THEN "none"
    ELSE "unknown field path"

ResolveForFields(n) ==
    IF n > 0 /\ _get_field_path_iterates(request_type)
    THEN ResolveFolders
    ELSE FoldersUntouched

Only(n, known) ==
    /\ Called("only", n, FieldPaths(n, known))
    /\ ResolveForFields(n)
    /\ only_fields' = IF FieldPaths(n, known) = "none" THEN n ELSE only_fields
    /\ UNCHANGED <<request_type, q, order_fields, return_format, qdepth>>

OrderBy(n, known) ==
    /\ Called("order_by", n, FieldPaths(n, known))
    /\ ResolveForFields(n)
    /\ order_fields' = IF FieldPaths(n, known) = "none" THEN n ELSE order_fields
    /\ UNCHANGED <<request_type, q, only_fields, return_format, qdepth>>

Reverse ==
    /\ Called("reverse", 0, IF order_fields = NoFields \/ order_fields = 0
                            THEN "no order_by fields" ELSE "none")
    /\ FoldersUntouched
    /\ UNCHANGED <<request_type, q, only_fields, order_fields, return_format, qdepth>>

Values(n, known) ==
    /\ Called("values", n, FieldPaths(n, known))
    /\ ResolveForFields(n)
    /\ only_fields' = IF FieldPaths(n, known) = "none" THEN n ELSE only_fields
    /\ return_format' = IF FieldPaths(n, known) = "none" THEN "values" ELSE return_format
    /\ UNCHANGED <<request_type, q, order_fields, qdepth>>

ValuesList(n, known, flat) ==
    IF flat /\ n # 1
    THEN /\ Called("values_list", n, "flat=True requires exactly one field name")
         /\ FoldersUntouched
         /\ UNCHANGED <<request_type, q, only_fields, order_fields, return_format, qdepth>>
    ELSE /\ Called("values_list", n, FieldPaths(n, known))
         /\ ResolveForFields(n)
         /\ only_fields' = IF FieldPaths(n, known) = "none" THEN n ELSE only_fields
         /\ return_format' = IF FieldPaths(n, known) # "none" THEN return_format
                             ELSE IF flat THEN "flat" ELSE "values_list"
         /\ UNCHANGED <<request_type, q, order_fields, qdepth>>

Depth(d) ==
    /\ Called("depth", 0, "none")
    /\ qdepth' = d
    /\ FoldersUntouched
    /\ UNCHANGED <<request_type, q, only_fields, order_fields, return_format>>

\* __iter__, and the iteration inside __getitem__: nothing happens for Q.NEVER;
\* otherwise _query resolves the folders and sends the FindItem request if
\* there is a folder, or the FindPeople request.
Evaluate(op) ==
    /\ evals < MaxEvals
    /\ evals' = evals + 1
    /\ qop' = op
    /\ qargs' = 0
    /\ qexc' = "none"
    /\ IF is_never(q)
       THEN /\ FoldersUntouched
            /\ UNCHANGED item_requests
       ELSE /\ ResolveFolders
            /\ item_requests' = IF folders_found \/ request_type = "persona" THEN item_requests + 1 ELSE item_requests
    /\ UNCHANGED <<request_type, q, only_fields, order_fields, return_format, qdepth,
                   folders_kind, folders_found, qsteps>>
    /\ UNCHANGED NotQuery

NextQuery ==
    \/ All
    \/ None
    \/ Filter
    \/ Exclude
    \/ People
    \/ \E n \in 0..MaxArgs, known \in BOOLEAN : Only(n, known)
    \/ \E n \in 0..MaxArgs, known \in BOOLEAN : OrderBy(n, known)
    \/ Reverse
    \/ \E n \in 0..MaxArgs, known \in BOOLEAN : Values(n, known)
    \/ \E n \in 0..MaxArgs, known \in BOOLEAN, flat \in BOOLEAN : ValuesList(n, known, flat)
    \/ \E d \in {"Shallow", "Associated", "Deep"} : Depth(d)
    \/ \E op \in {"__iter__", "__getitem__"} : Evaluate(op)

InitSpecQuery == InitQuery /\ CacheIdle /\ PoolIdle /\ PostIdle /\ VerIdle /\ MsgIdle /\ PageIdle /\ CopyIdle /\ SliceIdle /\ SyncIdle /\ ElemIdle /\ RetryIdle /\ FieldsIdle

SpecQuery == InitSpecQuery /\ [][NextQuery]_vars

\* The step is a call of a chaining method
ChainingStep == qsteps' = qsteps + 1 /\ qop' \in ChainingMethods

----------------------------------------------------------------------------
(* QuerySet._copy_self and the chaining methods, with the objects they
   share or copy (queryset.py 84-106, 400-503) *)

\* QuerySet(folder_collection)
NewQuerySet ==
    [request_type |-> "item", q |-> "all", only_fields |-> NoFields,
     order_fields |-> 0, return_format |-> "none", depth |-> "None"]

\* order_fields of the copy: None stays None, a tuple is a new tuple of new
\* FieldOrder objects. The result is the heap and the reference.
deepcopy_shared(heap, ref) == <<heap, ref>>

deepcopy(heap, ref) ==
    IF ref = 0 THEN <<heap, 0>> ELSE <<Append(heap, heap[ref]), Len(heap) + 1>>

\* for f in new_qs.order_fields: f.reverse = not f.reverse
Reversed(heap, ref) ==
    [heap EXCEPT ![ref] = [k \in DOMAIN heap[ref] |-> ~heap[ref][k]]]

\* What a QuerySet object is to its user: its fields, order_fields by value
ViewOf(sets, heap, i) ==
    [sets[i] EXCEPT !.order_fields = IF @ = 0 THEN <<>> ELSE <<heap[@]>>]

InitCopy ==
    /\ qsets = <<NewQuerySet>>
    /\ field_orders = <<>>
    /\ cself = 0
    /\ cop = "none"
    /\ cexc = "none"

\* The call raises: nothing is created
ChainRaises(i, m, e) ==
    /\ cself' = i
    /\ cop' = m
    /\ cexc' = e
    /\ UNCHANGED <<qsets, field_orders>>
    /\ UNCHANGED NotCopy

\* new_qs = self._copy_self(), then the assignments to new_qs that make it c
\* over the heap h
ChainReturns(i, m, h, c) ==
    /\ cself' = i
    /\ cop' = m
    /\ cexc' = "none"
    /\ qsets' = Append(qsets, c)
    /\ field_orders' = h
    /\ UNCHANGED NotCopy

\* qsets[i].m(...) with the field names given by flags (for order_by, whether
\* each starts with "-"), known telling whether the fields are found
Chain(i, m, flags, known, flat, d) ==
    LET self == qsets[i]
        cp == deepcopy(field_orders, self.order_fields)
        new_qs == [self EXCEPT !.order_fields = cp[2]]
        n == Len(flags)
    IN
    /\ Len(qsets) < MaxSets
    /\ CASE m = "all" -> ChainReturns(i, m, cp[1], new_qs)
         [] m = "none" -> ChainReturns(i, m, cp[1], [new_qs EXCEPT !.q = "never"])
         [] m \in {"filter", "exclude"} ->
                ChainReturns(i, m, cp[1], [new_qs EXCEPT !.q = QAnd(@)])
         [] m = "people" ->
                ChainReturns(i, m, cp[1], [new_qs EXCEPT !.request_type = "persona"])
         [] m = "only" ->
                IF n > 0 /\ ~known THEN ChainRaises(i, m, "unknown field path")
                ELSE ChainReturns(i, m, cp[1], [new_qs EXCEPT !.only_fields = n])
         [] m = "order_by" ->
                IF n > 0 /\ ~known THEN ChainRaises(i, m, "unknown field path")
                ELSE ChainReturns(i, m, Append(cp[1], flags),
                                  [new_qs EXCEPT !.order_fields = Len(cp[1]) + 1])
         [] m = "reverse" ->
                IF self.order_fields = 0 \/ field_orders[self.order_fields] = <<>>
                THEN ChainRaises(i, m, "no order_by fields")
                ELSE ChainReturns(i, m, Reversed(cp[1], cp[2]), new_qs)
         [] m = "values" ->
                IF n > 0 /\ ~known THEN ChainRaises(i, m, "unknown field path")
                ELSE ChainReturns(i, m, cp[1],
                        [new_qs EXCEPT !.only_fields = n, !.return_format = "values"])
         [] m = "values_list" ->
                IF flat /\ n # 1
                THEN ChainRaises(i, m, "flat=True requires exactly one field name")
                ELSE IF n > 0 /\ ~known THEN ChainRaises(i, m, "unknown field path")
                ELSE ChainReturns(i, m, cp[1],
                        [new_qs EXCEPT !.only_fields = n,
                                       !.return_format = IF flat THEN "flat" ELSE "values_list"])
         [] m = "depth" -> ChainReturns(i, m, cp[1], [new_qs EXCEPT !.depth = d])

\* Field names that may start with "-", and field names that do not
FieldFlags == UNION {[1..n -> BOOLEAN] : n \in 0..MaxArgs}

FieldNames == UNION {[1..n -> {FALSE}] : n \in 0..MaxArgs}

NextCopy ==
    \/ \E i \in DOMAIN qsets, m \in {"all", "none", "filter", "exclude", "people", "reverse"} :
          Chain(i, m, <<>>, TRUE, FALSE, "None")
    \/ \E i \in DOMAIN qsets, m \in {"only", "values"}, flags \in FieldNames, known \in BOOLEAN :
          Chain(i, m, flags, known, FALSE, "None")
    \/ \E i \in DOMAIN qsets, flags \in FieldFlags, known \in BOOLEAN :
          Chain(i, "order_by", flags, known, FALSE, "None")
    \/ \E i \in DOMAIN qsets, flags \in FieldNames, known \in BOOLEAN, flat \in BOOLEAN :
          Chain(i, "values_list", flags, known, flat, "None")
    \/ \E i \in DOMAIN qsets, d \in {"Shallow", "Deep"} :
          Chain(i, "depth", <<>>, TRUE, FALSE, d)

InitSpecCopy == InitCopy /\ CacheIdle /\ PoolIdle /\ PostIdle /\ VerIdle /\ MsgIdle /\ PageIdle /\ QueryIdle /\ SliceIdle /\ SyncIdle /\ ElemIdle /\ RetryIdle /\ FieldsIdle

SpecCopy == InitSpecCopy /\ [][NextCopy]_vars

\* C11: a chaining call leaves every existing QuerySet as it was, the one it
\* was called on included, and when it returns, what it returns is a
\* QuerySet that did not exist before.
ChainingLeavesOriginalUnchanged ==
    [][/\ \A i \in DOMAIN qsets :
             /\ i \in DOMAIN qsets'
             /\ ViewOf(qsets', field_orders', i) = ViewOf(qsets, field_orders, i)
       /\ cexc' = "none" => Len(qsets') = Len(qsets) + 1]_vars

\* C11 witness: reverse() returned a QuerySet ordered the other way round,
\* and the QuerySet it was called on is still ordered as before.
ReversedCopyDiffers ==
    /\ cop = "reverse"
    /\ cexc = "none"
    /\ ViewOf(qsets, field_orders, Len(qsets)).order_fields
         # ViewOf(qsets, field_orders, cself).order_fields

----------------------------------------------------------------------------
(* QuerySet.__getitem__ with a slice, and list(qs), both through
   FindItem._paged_call on a single folder whose contents do not change
   (queryset.py 282-322, folders/collections.py 160-222,
   services/common.py 712-846) *)

\* EWSService.PAGE_SIZE
PAGE_SIZE == 100

Min(a, b) == IF a < b THEN a ELSE b

\* The server's answer to FindItem with IndexedPageItemView(MaxEntriesReturned
\* = size, Offset = offset) on a view of n items, read by _get_page and
\* _get_paging_values: the items of the page by their position, and the next
\* offset, 0 standing for None.
FindItemPage(n, offset, size) ==
    LET upto == Min(offset + size, n)
        is_last_page == offset + size >= n
    IN  [items |-> IF offset >= n THEN <<>> ELSE [k \in 1..(upto - offset) |-> offset + k],
         next_offset |-> IF is_last_page \/ n = 0 THEN 0 ELSE upto]

\* _paged_call(payload_func, max_items, folders=[f], offset=offset, page_size=
\* size): the elements it yields when run to its end; total is
\* total_item_count. max_items 0 or None switches every max_items test off.
RECURSIVE _paged_call(_, _, _, _, _)
_paged_call(n, max, offset, size, total) ==
    LET page == FindItemPage(n, offset, size)
        k == _get_elems_from_page(Len(page.items), max, total)
        elems == SubSeq(page.items, 1, k)
    IN  IF max # 0 /\ total + k >= max THEN elems
        ELSE IF page.next_offset = 0 THEN elems
        ELSE elems \o _paged_call(n, max, page.next_offset, size, total + k)

\* EWSPagingService.__init__: page_size or PAGE_SIZE
ServicePageSize(size) == IF size = 0 THEN PAGE_SIZE ELSE size

\* _getitem_slice for start and stop that are both given and not negative:
\* the page_size of the copy
SlicePageSize(size, max) == IF size = 0 /\ max < PAGE_SIZE THEN max ELSE size

InitSlice ==
    /\ view_size \in 0..MaxView
    /\ qs_page_size \in 0..MaxQsPageSize
    /\ sl_start \in 0..MaxStop
    /\ sl_stop \in sl_start..MaxStop
    /\ listed = <<>>
    /\ sliced = <<>>
    /\ sl_done = {}

\* list(qs): __iter__ with offset 0 and max_items None
ListAll ==
    /\ "list" \notin sl_done
    /\ listed' = _paged_call(view_size, 0, 0, ServicePageSize(qs_page_size), 0)
    /\ sl_done' = sl_done \cup {"list"}
    /\ UNCHANGED <<view_size, qs_page_size, sl_start, sl_stop, sliced>>
    /\ UNCHANGED NotSlice

\* list(qs[start:stop])
GetitemSlice ==
    /\ "slice" \notin sl_done
    /\ LET offset == sl_start
           max == sl_stop - sl_start
       IN  sliced' = _paged_call(view_size, max, offset,
                                 ServicePageSize(SlicePageSize(qs_page_size, max)), 0)
    /\ sl_done' = sl_done \cup {"slice"}
    /\ UNCHANGED <<view_size, qs_page_size, sl_start, sl_stop, listed>>
    /\ UNCHANGED NotSlice

NextSlice == ListAll \/ GetitemSlice

InitSpecSlice == InitSlice /\ CacheIdle /\ PoolIdle /\ PostIdle /\ VerIdle /\ MsgIdle /\ PageIdle /\ QueryIdle /\ CopyIdle /\ SyncIdle /\ ElemIdle /\ RetryIdle /\ FieldsIdle

SpecSlice == InitSpecSlice /\ [][NextSlice]_vars

\* list(x)[start:stop] for 0 <= start <= stop
PySlice(x, start, stop) == SubSeq(x, start + 1, Min(stop, Len(x)))

\* C12: for 0 <= start <= stop, iterating qs[start:stop] yields the items of
\* list(qs)[start:stop], in the same order.
SliceIsListSlice ==
    sl_done = {"list", "slice"} => sliced = PySlice(listed, sl_start, sl_stop)

----------------------------------------------------------------------------
(* BaseFolder.sync_items and sync_hierarchy over FolderCollection.sync_items
   and sync_hierarchy (folders/base.py 657-701, folders/collections.py
   472-539, services/sync_folder_hierarchy.py 28-39) *)

\* A response message: its SyncState and IncludesLastItemInRange (or
\* IncludesLastFolderInRange), or an error the service raises
SyncResponses ==
    [sync_state : 1..MaxSyncStates, last : BOOLEAN, error : BOOLEAN]

\* SyncFolder._get_element_container: the SyncState read from the message
SyncStateKept(message, old) == old

SyncStateOf(message, old) == message.sync_state

InitSync ==
    /\ item_sync_state \in 0..1
    /\ folder_sync_state \in 0..1
    /\ sync_kind = "none"
    /\ sync_state = 0
    /\ svc_sync_state = 0
    /\ includes_last_item_in_range = FALSE
    /\ sync_pc = "idle"
    /\ last_response_state = 0
    /\ sync_calls = 0
    /\ sync_runs = 0

\* folder.sync_items(sync_state=given) or folder.sync_hierarchy(sync_state=
\* given) is started: if not sync_state, the folder's own state is used.
SyncStart(kind, given) ==
    /\ sync_pc \in {"idle", "done", "raised"}
    /\ sync_runs < MaxSyncRuns
    /\ sync_runs' = sync_runs + 1
    /\ sync_kind' = kind
    /\ sync_state' = IF given # 0 THEN given
                     ELSE IF kind = "items" THEN item_sync_state ELSE folder_sync_state
    /\ svc_sync_state' = 0
    /\ includes_last_item_in_range' = FALSE
    /\ last_response_state' = 0
    /\ sync_calls' = 0
    /\ sync_pc' = "call"
    /\ UNCHANGED <<item_sync_state, folder_sync_state>>
    /\ UNCHANGED NotSync

\* One round of the while loop: svc.call(sync_state=sync_state) is consumed,
\* the server answering with message, and the loop decides whether to go on.
SyncCall(message) ==
    /\ sync_pc = "call"
    /\ sync_calls < MaxSyncCalls \/ message.last
    /\ sync_calls' = sync_calls + 1
    /\ last_response_state' = message.sync_state
    /\ LET got == SyncStateOf(message, sync_state)
       IN  /\ svc_sync_state' = got
           /\ includes_last_item_in_range' = message.last
           /\ IF message.error
              THEN /\ sync_pc' = "raised"
                   /\ UNCHANGED sync_state
              ELSE IF got = sync_state
              THEN /\ sync_pc' = "completed"
                   /\ UNCHANGED sync_state
              ELSE /\ sync_state' = got
                   /\ sync_pc' = IF message.last THEN "completed" ELSE "call"
    /\ UNCHANGED <<item_sync_state, folder_sync_state, sync_kind, sync_runs>>
    /\ UNCHANGED NotSync

\* raise SyncCompleted(sync_state=svc.sync_state), caught by the folder's
\* generator, which sets the new sync state and ends.
SyncCompleted ==
    /\ sync_pc = "completed"
    /\ sync_pc' = "done"
    /\ item_sync_state' = IF sync_kind = "items" THEN svc_sync_state ELSE item_sync_state
    /\ folder_sync_state' = IF sync_kind = "hierarchy" THEN svc_sync_state ELSE folder_sync_state
    /\ UNCHANGED <<sync_kind, sync_state, svc_sync_state, includes_last_item_in_range,
                   last_response_state, sync_calls, sync_runs>>
    /\ UNCHANGED NotSync

NextSync ==
    \/ \E kind \in {"items", "hierarchy"}, given \in 0..MaxSyncStates : SyncStart(kind, given)
    \/ \E message \in SyncResponses : SyncCall(message)
    \/ SyncCompleted

InitSpecSync == InitSync /\ CacheIdle /\ PoolIdle /\ PostIdle /\ VerIdle /\ MsgIdle /\ PageIdle /\ QueryIdle /\ CopyIdle /\ SliceIdle /\ ElemIdle /\ RetryIdle /\ FieldsIdle

SpecSync == InitSpecSync /\ [][NextSync]_vars

\* C13: when the generator of sync_items has been consumed to its end,
\* folder.item_sync_state is the sync state of the last SyncFolderItems
\* response of that run; likewise folder.folder_sync_state for sync_hierarchy.
SyncStateIsLastResponse ==
    sync_pc = "done" =>
        /\ sync_kind = "items" => item_sync_state = last_response_state
        /\ sync_kind = "hierarchy" => folder_sync_state = last_response_state

\* C13 witness: a run of sync_items over two service calls has ended and
\* left a sync state that differs from the one it started with and from the
\* other attribute.
SyncedOverTwoCalls ==
    /\ sync_pc = "done"
    /\ sync_kind = "items"
    /\ sync_calls = 2
    /\ item_sync_state = last_response_state
    /\ item_sync_state # folder_sync_state
    /\ item_sync_state = MaxSyncStates

----------------------------------------------------------------------------
(* BaseProtocol: the session pool with the calls that close and replace
   sessions (protocol.py 152-160, 239-280), made by post_ratelimited on the
   session that EWSService._get_response took from the pool (util.py 820-920,
   services/common.py 292-319) *)

\* retire_session(session) of a checked-out session, as post_ratelimited does
\* before it raises: close_session(session), then
\* release_session(create_session()). fresh tells whether create_session
\* returns a session; if it raises, so does retire_session.
RetireSession(t, fresh) ==
    /\ ppc[t] = "idle" /\ held[t] > 0
    /\ held' = [held EXCEPT ![t] = @ - 1]
    /\ session_pool' = IF fresh THEN session_pool + 1 ELSE session_pool
    /\ pop' = [pop EXCEPT ![t] = "retire_session"]
    /\ pexc' = [pexc EXCEPT ![t] = IF fresh THEN "none" ELSE "create_session raised"]
    /\ UNCHANGED <<max_connections, session_pool_maxsize, session_pool_size,
                   session_pool_lock, ppc>>
    /\ UNCHANGED NotPool

\* session = renew_session(session), also at the end of refresh_credentials:
\* close_session(session), then create_session(), whose session the caller
\* holds from now on
RenewSession(t, fresh) ==
    /\ ppc[t] = "idle" /\ held[t] > 0
    /\ held' = [held EXCEPT ![t] = IF fresh THEN @ ELSE @ - 1]
    /\ pop' = [pop EXCEPT ![t] = "renew_session"]
    /\ pexc' = [pexc EXCEPT ![t] = IF fresh THEN "none" ELSE "create_session raised"]
    /\ UNCHANGED <<max_connections, session_pool_maxsize, session_pool_size, session_pool,
                   session_pool_lock, ppc>>
    /\ UNCHANGED NotPool

CallClose(t) ==
    /\ ppc[t] = "idle"
    /\ ppc' = [ppc EXCEPT ![t] = "close_loop"]
    /\ pop' = [pop EXCEPT ![t] = "close"]
    /\ pexc' = [pexc EXCEPT ![t] = "none"]
    /\ UNCHANGED <<max_connections, session_pool_maxsize, session_pool_size, session_pool,
                   session_pool_lock, held>>
    /\ UNCHANGED NotPool

\* close, one round of its loop: self._session_pool.get(block=False), then
\* close_session(session) and self._session_pool_size -= 1, or Empty
CloseLoop(t) ==
    /\ ppc[t] = "close_loop"
    /\ IF session_pool > 0
       THEN /\ session_pool' = session_pool - 1
            /\ session_pool_size' = session_pool_size - 1
            /\ UNCHANGED ppc
       ELSE /\ ppc' = [ppc EXCEPT ![t] = "idle"]
            /\ UNCHANGED <<session_pool, session_pool_size>>
    /\ UNCHANGED <<max_connections, session_pool_maxsize, session_pool_lock, pop, held, pexc>>
    /\ UNCHANGED NotPool

NextPoolAll ==
    \/ NextPool
    \/ \E t \in Threads, fresh \in BOOLEAN : RetireSession(t, fresh)
    \/ \E t \in Threads, fresh \in BOOLEAN : RenewSession(t, fresh)
    \/ \E t \in Threads : CallClose(t)
    \/ \E t \in Threads : CloseLoop(t)

SpecPoolAll == InitSpecPool /\ [][NextPoolAll]_vars

\* C15: whenever no pool operation is in progress, _session_pool_size is the
\* number of sessions in the queue plus the number of sessions checked out.
PoolSizeIsSessionCount ==
    (\A t \in Threads : ppc[t] = "idle") =>
        session_pool_size = session_pool + Cardinality({t \in Threads : held[t] > 0})

----------------------------------------------------------------------------
(* BaseProtocol: the session pool, with threads that go on running *)

\* The steps a thread takes inside get_session, increase_poolsize and
\* decrease_poolsize, as opposed to the calls the application decides to make
PoolStep(t) ==
    \/ GetSessionTry(t)
    \/ GetSessionWait(t)
    \/ IncreaseCheck(t)
    \/ IncreaseLock(t)
    \/ IncreaseLocked(t)
    \/ IncreaseIncrement(t)
    \/ DecreaseCheck(t)
    \/ DecreaseLock(t)
    \/ DecreaseLocked(t)
    \/ DecreaseClose(t)

\* A thread that can take a step again and again does take it: a lock or a
\* queue that is free again and again is not always snatched by the others.
SpecPoolFair == SpecPool /\ \A t \in Threads : SF_vars(PoolStep(t))

\* Every session checked out by the application is eventually released
SessionsReleased == \A u \in Threads : []<>(held[u] = 0)

\* C16: decrease_poolsize always completes, in any interleaving with
\* get_session, release_session and increase_poolsize calls of other threads,
\* provided that every session checked out is eventually released.
DecreaseAlwaysCompletes ==
    SessionsReleased =>
        \A t \in Threads :
            (pop[t] = "decrease_poolsize" /\ ppc[t] # "idle") ~> (ppc[t] = "idle")


\* The same for the pool with retire_session, renew_session and close
SpecPoolAllFair ==
    SpecPoolAll /\ \A t \in Threads : SF_vars(PoolStep(t)) /\ SF_vars(CloseLoop(t))

\* No session is lost to a create_session that raises
SessionsReplaced == [](\A u \in Threads : pexc[u] # "create_session raised")

\* C17: a thread that called get_session and waits for a session, the queue
\* being empty and the pool at its maximum, eventually gets one, provided
\* that every session checked out is eventually released.
WaitingGetSessionReturns ==
    (SessionsReleased /\ SessionsReplaced) =>
        \A t \in Threads :
            (pop[t] = "get_session" /\ ppc[t] = "gs_wait") ~> (ppc[t] = "idle")

----------------------------------------------------------------------------
(* EWSService._get_elements: the retry loop around one request, with
   _handle_backoff and the back_off of the retry policy
   (services/common.py 258-287, 382-396; protocol.py 712-713, 766-771) *)

\* FaultTolerance.DEFAULT_BACKOFF
DEFAULT_BACKOFF == 60

\* What one pass of _response_generator ends with: the elements, or an
\* exception raised while the response is read. ErrorServerBusy carries the
\* back off the server asked for, NoTime standing for None.
ElemAnswers ==
    {[kind |-> k, back_off |-> NoTime] :
        k \in {"elements", "ErrorTooManyObjectsOpened", "ErrorTimeoutExpired",
               "ErrorItemNotFound"}}
    \cup {[kind |-> "ErrorServerBusy", back_off |-> b] : b \in {NoTime} \cup 0..MaxBackOff}

\* FaultTolerance.back_off(seconds): the seconds from now that
\* _back_off_until is set to
back_off_default(seconds) == DEFAULT_BACKOFF

back_off(seconds) == IF seconds = NoTime THEN DEFAULT_BACKOFF ELSE seconds

\* protocol.decrease_poolsize() when it completes: the size after it
DecreasedPoolsize(size) == IF size <= 1 THEN size ELSE size - 1

InitElem ==
    /\ retry_policy \in Policies
    /\ e_pool_size \in 1..MaxConn
    /\ e_pc = "loop"
    /\ e_sent = 0
    /\ e_answers = <<>>
    /\ told_back_off = <<>>
    /\ policy_back_off = NoTime
    /\ e_result = "none"

\* _get_elements ends
ElemsEnd(result) ==
    /\ e_pc' = "done"
    /\ e_result' = result

\* _handle_backoff(e), followed by the continue of its caller when it returns
HandleBackoff(e) ==
    /\ e_pool_size' = DecreasedPoolsize(e_pool_size)
    /\ IF retry_policy = "FailFast"
       THEN /\ ElemsEnd("ErrorServerBusy")
            /\ UNCHANGED <<told_back_off, policy_back_off>>
       ELSE /\ told_back_off' = Append(told_back_off, e.back_off)
            /\ policy_back_off' = back_off(e.back_off)
            /\ UNCHANGED <<e_pc, e_result>>

\* One pass of the while loop of _get_elements: the payload is sent, and the
\* response is read to its end or to the exception a.
GetElements(a) ==
    /\ e_pc = "loop"
    /\ e_sent < MaxSends
    /\ e_sent' = e_sent + 1
    /\ e_answers' = Append(e_answers, a)
    /\ CASE a.kind = "elements" ->
              /\ ElemsEnd("returned")
              /\ UNCHANGED <<e_pool_size, told_back_off, policy_back_off>>
         [] a.kind = "ErrorServerBusy" -> HandleBackoff(a)
         [] a.kind = "ErrorTimeoutExpired" /\ e_pool_size <= 1 ->
              /\ ElemsEnd("ErrorTimeoutExpired")
              /\ UNCHANGED <<e_pool_size, told_back_off, policy_back_off>>
         [] a.kind \in {"ErrorTooManyObjectsOpened", "ErrorTimeoutExpired"} ->
              \* raise ErrorServerBusy(...) inside the except clause: no
              \* except clause of the same try statement catches it
              /\ ElemsEnd("ErrorServerBusy")
              /\ UNCHANGED <<e_pool_size, told_back_off, policy_back_off>>
         [] OTHER ->
              /\ ElemsEnd(a.kind)
              /\ UNCHANGED <<e_pool_size, told_back_off, policy_back_off>>
    /\ UNCHANGED retry_policy
    /\ UNCHANGED NotElem

NextElem == \E a \in ElemAnswers : GetElements(a)

InitSpecElem == InitElem /\ CacheIdle /\ PoolIdle /\ PostIdle /\ VerIdle /\ MsgIdle /\ PageIdle /\ QueryIdle /\ CopyIdle /\ SliceIdle /\ SyncIdle /\ RetryIdle /\ FieldsIdle

SpecElem == InitSpecElem /\ [][NextElem]_vars

\* The answer of the pass just made
LastAnswer == e_answers'[Len(e_answers')]

HandledAsServerBusy ==
    [][(/\ e_sent' = e_sent + 1
        /\ \/ LastAnswer.kind = "ErrorTooManyObjectsOpened"
           \/ LastAnswer.kind = "ErrorTimeoutExpired" /\ e_pool_size > 1) =>
          /\ e_pool_size' = DecreasedPoolsize(e_pool_size)
          /\ retry_policy = "FaultTolerance" =>
                /\ e_pc' = "loop"
                /\ Len(told_back_off') = Len(told_back_off) + 1]_vars

----------------------------------------------------------------------------
(* EWSService._get_elements reading the response lazily: the generator of
   _get_elements_in_response hands each element to the caller before it
   takes the next response message
   (services/common.py 222-231, 258-287, 382-396, 630-636) *)

\* The response messages of this section: a success with its container, and
\* errors with the code ErrorServerBusy or ErrorItemNotFound
RetryMessages ==
    {m \in Messages :
        /\ m.inner_code = ""
        /\ m.container
        /\ \/ m.response_class = "Success" /\ m.response_code = "NoError"
           \/ m.response_class = "Error"
              /\ m.response_code \in {"ErrorServerBusy", "ErrorItemNotFound"}}

\* What _get_soap_messages returns: one response message per item of the
\* request, in the order of the request
RetryResponses == [1..MaxMsgs -> RetryMessages]

InitRetry ==
    /\ rt_svc \in MsgServices
    /\ rt_policy \in Policies
    /\ rt_pool_size \in 1..MaxConn
    /\ rt_pc = "send"
    /\ rt_sent = 0
    /\ rt_response = <<>>
    /\ rt_pos = 1
    /\ delivered = <<>>
    /\ rt_result = "none"

\* _get_elements ends
RetryEnd(result) ==
    /\ rt_pc' = "done"
    /\ rt_result' = result

\* except ErrorServerBusy: _handle_backoff(e), then continue
RetryHandleBackoff ==
    /\ rt_pool_size' = DecreasedPoolsize(rt_pool_size)
    /\ IF rt_policy = "FailFast"
       THEN RetryEnd("ErrorServerBusy")
       ELSE /\ rt_pc' = "send"
            /\ UNCHANGED rt_result

\* An exception exc raised while the response is read: the except clause for
\* ErrorServerBusy, or out of _get_elements. The response codes of this
\* section make no exception of the third clause (lines 271-284).
RetryExcept(exc) ==
    IF exc = "ErrorServerBusy"
    THEN RetryHandleBackoff
    ELSE /\ RetryEnd(exc)
         /\ UNCHANGED rt_pool_size

\* _response_generator(payload): the payload is sent and the response
\* messages come back; the generator over them has not started.
SendPayload(resp) ==
    /\ rt_pc = "send"
    /\ rt_sent < MaxSends
    /\ rt_sent' = rt_sent + 1
    /\ rt_response' = resp
    /\ rt_pos' = 1
    /\ rt_pc' = "read"
    /\ UNCHANGED <<rt_svc, rt_policy, rt_pool_size, delivered, rt_result>>
    /\ UNCHANGED NotRetry

\* _response_generator(payload) when the response is a SOAP fault with the
\* code ErrorServerBusy: _get_soap_messages raises before any message is read.
SendPayloadFault ==
    /\ rt_pc = "send"
    /\ rt_sent < MaxSends
    /\ rt_sent' = rt_sent + 1
    /\ rt_response' = <<>>
    /\ rt_pos' = 1
    /\ RetryHandleBackoff
    /\ UNCHANGED <<rt_svc, rt_policy, delivered>>
    /\ UNCHANGED NotRetry

\* What the caller receives for the message at position i: the element of
\* the i-th item of the request, or the exception returned for it
Element(i, c) ==
    [item |-> i, value |-> IF c.kind = "exception" THEN c.exc ELSE "element"]

\* yield from, one step: the generator takes the next response message and
\* yields its element to the caller, or raises, or is exhausted.
YieldFrom ==
    /\ rt_pc = "read"
    /\ IF rt_pos > Len(rt_response)
       THEN /\ RetryEnd("returned")
            /\ UNCHANGED <<rt_pool_size, rt_pos, delivered>>
       ELSE IF _get_element_container(rt_svc, rt_response[rt_pos]).kind = "raise"
       THEN /\ RetryExcept(_get_element_container(rt_svc, rt_response[rt_pos]).exc)
            /\ UNCHANGED <<rt_pos, delivered>>
       ELSE /\ delivered' = Append(delivered,
                 Element(rt_pos, _get_element_container(rt_svc, rt_response[rt_pos])))
            /\ rt_pos' = rt_pos + 1
            /\ UNCHANGED <<rt_pool_size, rt_pc, rt_result>>
    /\ UNCHANGED <<rt_svc, rt_policy, rt_sent, rt_response>>
    /\ UNCHANGED NotRetry

NextRetry ==
    \/ \E resp \in RetryResponses : SendPayload(resp)
    \/ SendPayloadFault
    \/ YieldFrom

InitSpecRetry == InitRetry /\ CacheIdle /\ PoolIdle /\ PostIdle /\ VerIdle /\ MsgIdle /\ PageIdle /\ QueryIdle /\ CopyIdle /\ SliceIdle /\ SyncIdle /\ ElemIdle /\ FieldsIdle

SpecRetry == InitSpecRetry /\ [][NextRetry]_vars

\* C21: the caller of _get_elements receives the element of no item of the
\* request twice, however often the request is sent again after an
\* ErrorServerBusy.
NoElementDeliveredTwice ==
    \A i, j \in 1..Len(delivered) :
        i # j => delivered[i].item # delivered[j].item

----------------------------------------------------------------------------
(* Fields: a list of Field objects with a dict from field name to field
   (properties.py 58-113), and EWSElement.add_field and remove_field, which
   change the FIELDS of a class (properties.py 391-415) *)

FieldNameSet == {"subject", "body"}

FieldURIs == {"item:Subject", "item:Body"}

\* The Field objects: a name, and the field_uri that FieldURIField.__hash__
\* hashes
FieldObjects == [name : FieldNameSet, field_uri : FieldURIs]

\* Field.__eq__: hash(self) == hash(other)
FieldEq(f, g) == f.field_uri = g.field_uri

\* Sequences of at most n Field objects
FieldSeqs(n) == UNION {[1..k -> FieldObjects] : k \in 0..n}

\* The loop of __init__ finds a name that is in self._dict already
HasDuplicate(fs) ==
    \E i, j \in 1..Len(fs) : i < j /\ fs[i].name = fs[j].name

\* self._dict after these fields were stored in turn in an empty dict
DictOf(fs) ==
    [n \in FieldNameSet |->
        IF \E i \in 1..Len(fs) : fs[i].name = n
        THEN <<fs[CHOOSE i \in 1..Len(fs) :
                    /\ fs[i].name = n
                    /\ \A j \in 1..Len(fs) : fs[j].name = n => j <= i]>>
        ELSE <<>>]

\* self._dict[field.name] = field
DictSet(d, f) == [d EXCEPT ![f.name] = <<f>>]

\* for f in other: self.append(f), the dict part
RECURSIVE DictSetAll(_, _)
DictSetAll(d, fs) ==
    IF fs = <<>> THEN d ELSE DictSetAll(DictSet(d, Head(fs)), Tail(fs))

\* list.insert(index, field) for an index in 0..len
ListInsert(l, index, f) ==
    SubSeq(l, 1, index) \o <<f>> \o SubSeq(l, index + 1, Len(l))

\* The positions of the list members equal to field, which list.remove and
\* list.index search from the front
EqualTo(l, f) == {i \in 1..Len(l) : FieldEq(l[i], f)}

\* list.remove(field) when a member equals field: the first is taken out
ListRemove(l, f) ==
    LET i == CHOOSE k \in EqualTo(l, f) : \A m \in EqualTo(l, f) : k <= m
    IN SubSeq(l, 1, i - 1) \o SubSeq(l, i + 1, Len(l))

\* index_by_name(field_name): the index of the first field of that name,
\* counted from 0, or NoFields for the ValueError
index_by_name(l, field_name) ==
    IF \E i \in 1..Len(l) : l[i].name = field_name
    THEN (CHOOSE i \in 1..Len(l) :
              /\ l[i].name = field_name
              /\ \A j \in 1..Len(l) : l[j].name = field_name => i <= j) - 1
    ELSE NoFields

\* Fields(*fields) for fields that __init__ accepts
InitFields ==
    /\ fields_list \in {fs \in FieldSeqs(MaxOther) : ~HasDuplicate(fs)}
    /\ fields_dict = DictOf(fields_list)
    /\ fields_op = "__init__"
    /\ fields_exc = "none"

\* The call op ends with the exception exc and changes nothing
FieldsRaise(op, exc) ==
    /\ fields_op' = op
    /\ fields_exc' = exc
    /\ UNCHANGED <<fields_list, fields_dict>>

\* The call op returns, the collection being l and d
FieldsReturn(op, l, d) ==
    /\ fields_op' = op
    /\ fields_exc' = "none"
    /\ fields_list' = l
    /\ fields_dict' = d

\* insert(index, field)
insert(index, field) ==
    IF fields_dict[field.name] # <<>>
    THEN FieldsRaise("insert", "ValueError")
    ELSE FieldsReturn("insert", ListInsert(fields_list, index, field),
                      DictSet(fields_dict, field))

CallInsert(index, field) ==
    /\ Len(fields_list) < MaxFields
    /\ index \in 0..Len(fields_list)
    /\ insert(index, field)
    /\ UNCHANGED NotFields

\* append(field)
CallAppend(field) ==
    /\ Len(fields_list) < MaxFields
    /\ FieldsReturn("append", Append(fields_list, field), DictSet(fields_dict, field))
    /\ UNCHANGED NotFields

\* self += other
CallIAdd(other) ==
    /\ other # <<>>
    /\ Len(fields_list) + Len(other) <= MaxFields
    /\ FieldsReturn("__iadd__", fields_list \o other, DictSetAll(fields_dict, other))
    /\ UNCHANGED NotFields

\* remove(field): super().remove(field), then del self._dict[field.name]
CallRemove(field) ==
    /\ IF EqualTo(fields_list, field) = {}
       THEN FieldsRaise("remove", "ValueError")
       ELSE /\ fields_op' = "remove"
            /\ fields_list' = ListRemove(fields_list, field)
            /\ IF fields_dict[field.name] = <<>>
               THEN /\ fields_exc' = "KeyError"
                    /\ UNCHANGED fields_dict
               ELSE /\ fields_exc' = "none"
                    /\ fields_dict' = [fields_dict EXCEPT ![field.name] = <<>>]
    /\ UNCHANGED NotFields

\* copy(): self.__class__(*self); the copy is the collection looked at from
\* here on
CallCopy ==
    /\ IF HasDuplicate(fields_list)
       THEN FieldsRaise("copy", "ValueError")
       ELSE FieldsReturn("copy", fields_list, DictOf(fields_list))
    /\ UNCHANGED NotFields

\* EWSElement.add_field(field, insert_after)
add_field(field, insert_after) ==
    /\ Len(fields_list) < MaxFields
    /\ IF index_by_name(fields_list, insert_after) = NoFields
       THEN FieldsRaise("index_by_name", "ValueError")
       ELSE insert(index_by_name(fields_list, insert_after) + 1, field)
    /\ UNCHANGED NotFields

NextFields ==
    \/ \E index \in 0..MaxFields, field \in FieldObjects : CallInsert(index, field)
    \/ \E field \in FieldObjects : CallAppend(field)
    \/ \E other \in FieldSeqs(MaxOther) : CallIAdd(other)
    \/ \E field \in FieldObjects : CallRemove(field)
    \/ CallCopy
    \/ \E field \in FieldObjects, insert_after \in FieldNameSet : add_field(field, insert_after)

InitSpecFields == InitFields /\ CacheIdle /\ PoolIdle /\ PostIdle /\ VerIdle /\ MsgIdle /\ PageIdle /\ QueryIdle /\ CopyIdle /\ SliceIdle /\ SyncIdle /\ ElemIdle /\ RetryIdle

SpecFields == InitSpecFields /\ [][NextFields]_vars

\* C22: the list holds no two fields of the same name, and for every name
\* the dict has the key exactly when the list has a field of that name, the
\* value then being a member of the list with that name.
FieldsListMatchesDict ==
    /\ ~HasDuplicate(fields_list)
    /\ \A n \in FieldNameSet :
          /\ fields_dict[n] # <<>> <=> \E i \in 1..Len(fields_list) : fields_list[i].name = n
          /\ fields_dict[n] # <<>> =>
                \E i \in 1..Len(fields_list) :
                    fields_list[i] = fields_dict[n][1] /\ fields_list[i].name = n

====
